---- MODULE Spec2Model ----
(***************************************************************************)
(* Model of the kestrel serial telemetry ingestion engine:                 *)
(*   - the packet parser  (crates/serial/src/lib.rs, read_packet),         *)
(*   - the value codec    (crates/metric/src/value.rs, from_bytes),        *)
(*   - the channel based worker state machine (SerialWorker::spawn) and    *)
(*     its controller (SerialWorkerController).                            *)
(* Bytes are naturals 0..255, byte strings are sequences of bytes and      *)
(* Rust strings are sequences of code points.                              *)
(***************************************************************************)
EXTENDS Integers, Sequences, FiniteSets, TLC

(***************************************************************************)
(* Bounds of the model.                                                    *)
(***************************************************************************)
\* longest frame enumerated exhaustively over ShortAlphabet
MaxShortLen == 5
\* longest value section of the structured frames
MaxValueLen == 2
\* number of commands the controller sends in one behaviour
MaxCmds == 3
\* number of metrics the worker decodes in one behaviour
MaxMetrics == 2
\* most zero bytes appended to a value handed to from_bytes
MaxPad == 8
\* longest metric name handed to from_str
MaxNameLen == 5
\* most packets the application ingests
MaxPackets == 3
\* capacity of the application's ring buffers
RingCap == 2
\* most bytes pending in the transport when read_cobs is checked
MaxStreamLen == 6
\* most read_cobs calls followed on one transport
MaxCalls == 3
\* most packets the flag-based worker puts on its packet channel
MaxFlagPackets == 5

(***************************************************************************)
(* Byte helpers.                                                           *)
(***************************************************************************)
\* a subtraction that takes nothing away
SatSub_KeepsAll(a, b) == a

\* usize::saturating_sub
SatSub(a, b) == IF a >= b THEN a - b ELSE 0

RECURSIVE FromLeBytes(_)
\* uN::from_le_bytes: the first byte is the least significant one
FromLeBytes(bytes) ==
    IF bytes = <<>> THEN 0 ELSE Head(bytes) + 256 * FromLeBytes(Tail(bytes))

\* String::from_utf8_lossy on the bytes the model draws: an ASCII byte is the
\* code point itself, a byte that can start no UTF-8 sequence (the model uses
\* 0xFF only) becomes U+FFFD
Utf8Lossy(bytes) ==
    [i \in 1..Len(bytes) |-> IF bytes[i] < 128 THEN bytes[i] ELSE 65533]

\* the position of the first element of s equal to b at or after from, 0 if none
RECURSIVE IndexOf(_, _, _)
IndexOf(s, b, from) ==
    IF from > Len(s) THEN 0
    ELSE IF s[from] = b THEN from
    ELSE IndexOf(s, b, from + 1)

(***************************************************************************)
(* ValueCodec: MetricValue::from_bytes (crates/metric/src/value.rs).       *)
(* A value is <<"One", ty, v>>, <<"Many", ty, <<v1, ...>>>> or             *)
(* <<"Unknown", tag, bytes>>.  A float is kept as the bit pattern          *)
(* <<"bits", n>> that f32/f64::from_le_bytes reinterprets.                 *)
(***************************************************************************)
OneValueTypes ==
    {"U8", "U16", "U32", "U64", "I8", "I16", "I32", "I64", "Bool", "F32", "F64"}

\* the tag string of each scalar type, as code points ("u8", "u16", ...)
ScalarTag(ty) ==
    CASE ty = "U8"   -> <<117, 56>>
      [] ty = "U16"  -> <<117, 49, 54>>
      [] ty = "U32"  -> <<117, 51, 50>>
      [] ty = "U64"  -> <<117, 54, 52>>
      [] ty = "I8"   -> <<105, 56>>
      [] ty = "I16"  -> <<105, 49, 54>>
      [] ty = "I32"  -> <<105, 51, 50>>
      [] ty = "I64"  -> <<105, 54, 52>>
      [] ty = "Bool" -> <<98, 111, 111, 108>>
      [] ty = "F32"  -> <<102, 51, 50>>
      [] ty = "F64"  -> <<102, 54, 52>>

\* the tag string of the array of a scalar type ("[u8]", ...)
ArrayTag(ty) == <<91>> \o ScalarTag(ty) \o <<93>>

\* core::mem::size_of of the scalar type (bool is read as a u8)
SizeOf(ty) ==
    CASE ty \in {"U8", "I8", "Bool"}   -> 1
      [] ty \in {"U16", "I16"}         -> 2
      [] ty \in {"U32", "I32", "F32"}  -> 4
      [] ty \in {"U64", "I64", "F64"}  -> 8

\* a signed decode that loses the sign of a negative value
SignedFromLeBytes_Magnitude(bytes) ==
    IF bytes[Len(bytes)] >= 128
    THEN FromLeBytes([i \in 1..Len(bytes) |-> 255 - bytes[i]]) + 1
    ELSE FromLeBytes(bytes)

\* iN::from_le_bytes: two's complement, computed on the inverted bytes so
\* that no power of two beyond the value itself is needed
SignedFromLeBytes(bytes) ==
    IF bytes[Len(bytes)] >= 128
    THEN 0 - (FromLeBytes([i \in 1..Len(bytes) |-> 255 - bytes[i]]) + 1)
    ELSE FromLeBytes(bytes)

\* <$ty>::from_le_bytes(arr) for an array of exactly SizeOf(ty) bytes
FromLe(ty, bytes) ==
    CASE ty \in {"U8", "U16", "U32", "U64"} -> FromLeBytes(bytes)
      [] ty \in {"I8", "I16", "I32", "I64"} -> SignedFromLeBytes(bytes)
      [] ty = "Bool"                        -> (bytes[1] # 0)
      [] ty \in {"F32", "F64"}              -> <<"bits", FromLeBytes(bytes)>>

BadLength(expected, got) ==
    [tag |-> "Err", err |-> "BadLength", expected |-> expected, got |-> got]

\* metric!(bytes as $ty): try_into a [u8; size_of] then from_le_bytes
MetricScalar(ty, bytes) ==
    IF Len(bytes) # SizeOf(ty)
    THEN BadLength(SizeOf(ty), Len(bytes))
    ELSE [tag |-> "Ok", v |-> FromLe(ty, bytes)]

\* chunks_exact: a trailing partial window is dropped
Chunks_Exact(bytes, size) ==
    [k \in 1..(Len(bytes) \div size) |->
        SubSeq(bytes, (k - 1) * size + 1, k * size)]

\* bytes.chunks(size): windows of size bytes, the last one possibly shorter
Chunks(bytes, size) ==
    [k \in 1..((Len(bytes) + size - 1) \div size) |->
        SubSeq(bytes, (k - 1) * size + 1,
               IF k * size <= Len(bytes) THEN k * size ELSE Len(bytes))]

\* metric!(bytes as [$ty]): every chunk decoded, collected into a Result
\* (the first failing chunk is the error)
MetricArray(ty, bytes) ==
    LET cs  == Chunks(bytes, SizeOf(ty))
        rs  == [k \in 1..Len(cs) |-> MetricScalar(ty, cs[k])]
        bad == {k \in 1..Len(cs) : rs[k].tag = "Err"}
    IN  IF bad # {}
        THEN rs[CHOOSE k \in bad : \A j \in bad : k <= j]
        ELSE [tag |-> "Ok", v |-> [k \in 1..Len(cs) |-> rs[k].v]]

\* a catch-all arm that keeps the tag and loses the bytes
UnknownArm_DropsBytes(ty, bytes) == <<"Unknown", ty, <<>>>>

\* the arm `_ => MetricValue::Unknown(ty, Box::from(bytes))`
UnknownArm(ty, bytes) == <<"Unknown", ty, bytes>>

\* MetricValue::from_bytes(ty, bytes)
from_bytes(ty, bytes) ==
    IF \E t \in OneValueTypes : ty = ScalarTag(t)
    THEN LET t == CHOOSE t \in OneValueTypes : ty = ScalarTag(t)
             r == MetricScalar(t, bytes)
         IN  IF r.tag = "Err" THEN r
             ELSE [tag |-> "Ok", value |-> <<"One", t, r.v>>]
    ELSE IF \E t \in OneValueTypes : ty = ArrayTag(t)
    THEN LET t == CHOOSE t \in OneValueTypes : ty = ArrayTag(t)
             r == MetricArray(t, bytes)
         IN  IF r.tag = "Err" THEN r
             ELSE [tag |-> "Ok", value |-> <<"Many", t, r.v>>]
    ELSE [tag |-> "Ok", value |-> UnknownArm(ty, bytes)]

(***************************************************************************)
(* The accessors of MetricValue (crates/metric/src/value.rs).  An Option   *)
(* is <<>> for None and <<x>> for Some(x).                                 *)
(***************************************************************************)
as_bool(value) ==
    IF value[1] = "One" /\ value[2] = "Bool" THEN <<value[3]>> ELSE <<>>

\* an accessor without the U64 arm
as_unsigned_integer_NoU64(value) ==
    IF value[1] = "One" /\ value[2] \in {"U8", "U16", "U32"}
    THEN <<value[3]>> ELSE <<>>

\* u64::from widens without changing the number
as_unsigned_integer(value) ==
    IF value[1] = "One" /\ value[2] \in {"U8", "U16", "U32", "U64"}
    THEN <<value[3]>> ELSE <<>>

\* i64::from widens without changing the number
as_signed_integer(value) ==
    IF value[1] = "One" /\ value[2] \in {"I8", "I16", "I32", "I64"}
    THEN <<value[3]>> ELSE <<>>

\* f64::from(f32) is the f64 of the same number, kept as the f32 it came from
as_float(value) ==
    IF value[1] = "One" /\ value[2] = "F64" THEN <<value[3]>>
    ELSE IF value[1] = "One" /\ value[2] = "F32" THEN <<<<"f64_from", value[3]>>>>
    ELSE <<>>

\* value.iter().copied(): the elements in their order
as_bool_iter(value) ==
    IF value[1] = "Many" /\ value[2] = "Bool" THEN <<value[3]>> ELSE <<>>

as_unsigned_integer_iter(value) ==
    IF value[1] = "Many" /\ value[2] \in {"U8", "U16", "U32", "U64"}
    THEN <<value[3]>> ELSE <<>>

\* an accessor without the I8 arm
as_signed_integer_iter_NoI8(value) ==
    IF value[1] = "Many" /\ value[2] \in {"I16", "I32", "I64"}
    THEN <<value[3]>> ELSE <<>>

as_signed_integer_iter(value) ==
    IF value[1] = "Many" /\ value[2] \in {"I8", "I16", "I32", "I64"}
    THEN <<value[3]>> ELSE <<>>

as_float_iter(value) ==
    IF value[1] = "Many" /\ value[2] = "F64" THEN <<value[3]>>
    ELSE IF value[1] = "Many" /\ value[2] = "F32"
    THEN <<[i \in 1..Len(value[3]) |-> <<"f64_from", value[3][i]>>]>>
    ELSE <<>>

is_bool(value) == as_bool(value) # <<>>
is_unsigned_integer(value) == as_unsigned_integer(value) # <<>>
is_signed_integer(value) == as_signed_integer(value) # <<>>
is_float(value) == as_float(value) # <<>>

\* latest_metrics: whether the row of the value can be focused
is_focusable(value) ==
    \/ is_float(value)
    \/ is_signed_integer(value)
    \/ is_unsigned_integer(value)
    \/ is_bool(value)

(***************************************************************************)
(* MetricName: FromStr (src/serial/metric/name.rs).                        *)
(* A name is <<"Name", s>> or <<"Namespace", s, inner>>.                   *)
(***************************************************************************)
\* s.split(':'): the segments between the colons, at least one
RECURSIVE SplitColon(_)
SplitColon(s) ==
    LET i == IndexOf(s, 58, 1)
    IN  IF i = 0 THEN <<s>>
        ELSE <<SubSeq(s, 1, i - 1)>> \o SplitColon(SubSeq(s, i + 1, Len(s)))

RECURSIVE FoldNamespaces(_, _)
\* a fold from the front: the first namespace ends up innermost
FoldNamespaces_Front(namespaces, name) ==
    IF namespaces = <<>> THEN name
    ELSE FoldNamespaces(Tail(namespaces),
                        <<"Namespace", Head(namespaces), name>>)

\* split.rfold(MetricName::name(name), |name, ns| MetricName::namespace(ns, name))
FoldNamespaces(namespaces, name) ==
    IF namespaces = <<>> THEN name
    ELSE FoldNamespaces(SubSeq(namespaces, 1, Len(namespaces) - 1),
                        <<"Namespace", namespaces[Len(namespaces)], name>>)

\* a parse that keeps the whole string as one flat name
from_str_Flat(s) == <<"Name", s>>

\* <MetricName as FromStr>::from_str
from_str(s) ==
    LET split == SplitColon(s)
        name  == split[Len(split)]
    IN  FoldNamespaces(SubSeq(split, 1, Len(split) - 1), <<"Name", name>>)

\* MetricName::flatten().collect(): Flatten::next yields the namespace and
\* descends, or yields the name and ends
RECURSIVE Flatten(_)
Flatten(name) ==
    IF name[1] = "Namespace" THEN <<name[2]>> \o Flatten(name[3])
    ELSE <<name[2]>>

(***************************************************************************)
(* Timestamp (crates/metric/src/timestamp.rs).                             *)
(***************************************************************************)
\* a subtraction that does not stop at zero
TimestampSub_Plain(a, b) == a - b

\* impl Sub for Timestamp: u32::saturating_sub
TimestampSub(a, b) == IF a >= b THEN a - b ELSE 0

(***************************************************************************)
(* PacketParser: SerialWorker::read_packet (crates/serial/src/lib.rs),     *)
(* applied to the frame read_cobs returned.  The result is                 *)
(*   [tag |-> "Ok", metric |-> ...], [tag |-> "Err", err |-> ...] or       *)
(*   [tag |-> "Panic"] when the function unwinds.                          *)
(***************************************************************************)
\* an error that reports the two lengths in each other's place
BadPacketLength_Swapped(expected, got) ==
    [tag |-> "Err", err |-> "BadPacketLength", expected |-> <<got>>,
     got |-> IF expected = <<>> THEN 0 ELSE expected[1]]

\* expected is <<>> for None and <<n>> for Some(n)
BadPacketLength(expected, got) ==
    [tag |-> "Err", err |-> "BadPacketLength", expected |-> expected, got |-> got]

PoorLayout(section, packet) ==
    [tag |-> "Err", err |-> "PoorLayout", section |-> section, packet |-> packet]

\* a split whose third section stops at the third NUL
SplitN3_TruncatesValue(packet) ==
    LET i == IndexOf(packet, 0, 1)
        j == IF i = 0 THEN 0 ELSE IndexOf(packet, 0, i + 1)
        k == IF j = 0 THEN 0 ELSE IndexOf(packet, 0, j + 1)
    IN  IF i = 0 THEN <<packet>>
        ELSE IF j = 0
        THEN <<SubSeq(packet, 1, i - 1), SubSeq(packet, i + 1, Len(packet))>>
        ELSE <<SubSeq(packet, 1, i - 1), SubSeq(packet, i + 1, j - 1),
               SubSeq(packet, j + 1, IF k = 0 THEN Len(packet) ELSE k - 1)>>

\* packet.splitn(3, |&b| b == 0x00): at most three sections, the last one
\* keeps every further NUL
SplitN3(packet) ==
    LET i == IndexOf(packet, 0, 1)
        j == IF i = 0 THEN 0 ELSE IndexOf(packet, 0, i + 1)
    IN  IF i = 0 THEN <<packet>>
        ELSE IF j = 0
        THEN <<SubSeq(packet, 1, i - 1), SubSeq(packet, i + 1, Len(packet))>>
        ELSE <<SubSeq(packet, 1, i - 1), SubSeq(packet, i + 1, j - 1),
               SubSeq(packet, j + 1, Len(packet))>>

read_packet(buffer) ==
    LET cut           == SatSub(Len(buffer), 2)
        body          == SubSeq(buffer, 1, cut)
        length_bytes  == SubSeq(buffer, cut + 1, Len(buffer))
        packet_length == SatSub(FromLeBytes(length_bytes), 2)
    IN  IF Len(length_bytes) # 2
        THEN BadPacketLength(<<>>, Len(body))
        ELSE IF packet_length # Len(body)
        THEN BadPacketLength(<<packet_length>>, Len(body))
        \* body.split_at(size_of::<u32>()) panics when mid > len
        ELSE IF Len(body) < 4
        THEN [tag |-> "Panic"]
        ELSE
        LET timestamp == FromLeBytes(SubSeq(body, 1, 4))
            packet    == SubSeq(body, 5, Len(body))
            split     == SplitN3(packet)
        IN  IF Len(split) < 1 THEN PoorLayout(0, packet)
            ELSE IF Len(split) < 2 THEN PoorLayout(1, packet)
            ELSE IF Len(split) < 3 THEN PoorLayout(2, packet)
            ELSE
            LET metric_name  == Utf8Lossy(split[1])
                metric_type  == Utf8Lossy(split[2])
                metric_value == from_bytes(metric_type, split[3])
            IN  IF metric_value.tag = "Err" THEN metric_value
                ELSE [tag |-> "Ok",
                      metric |-> [timestamp |-> timestamp,
                                  name      |-> from_str(metric_name),
                                  value     |-> metric_value.value]]

(***************************************************************************)
(* Frames.  The wire layout of a packet after unstuffing is                *)
(*   timestamp u32 LE, name, 0x00, type tag, 0x00, value, declared u16 LE  *)
(* where declared counts everything before it plus 2.                      *)
(***************************************************************************)
\* uN::to_le_bytes on n bytes
RECURSIVE ToLeBytes(_, _)
ToLeBytes(x, n) ==
    IF n = 0 THEN <<>> ELSE <<x % 256>> \o ToLeBytes(x \div 256, n - 1)

\* every byte string over alphabet of length at most n
RECURSIVE SeqsUpTo(_, _)
SeqsUpTo(alphabet, n) ==
    IF n = 0 THEN {<<>>}
    ELSE LET shorter == SeqsUpTo(alphabet, n - 1)
         IN  shorter \cup {Append(q, b) : q \in shorter, b \in alphabet}

\* a body followed by a declared length that is off by delta
FrameOf(body, delta) == body \o ToLeBytes(Len(body) + 2 + delta, 2)

\* the body of a well laid out packet
BodyOf(timestamp, name, tag, value) ==
    ToLeBytes(timestamp, 4) \o name \o <<0>> \o tag \o <<0>> \o value

ShortAlphabet == {0, 2, 3, 4, 5}
ShortFrames == SeqsUpTo(ShortAlphabet, MaxShortLen)

Timestamps == {0, 1000}
\* "a", "a:b"
Names == {<<97>>, <<97, 58, 98>>}
\* the 22 recognized tags, "v3", "U8" and a tag with an invalid UTF-8 byte
Tags ==
    {ScalarTag(t) : t \in OneValueTypes} \cup {ArrayTag(t) : t \in OneValueTypes}
        \cup {<<118, 51>>, <<85, 56>>, <<255>>}
ValueAlphabet == {0, 1, 255}
Values ==
    SeqsUpTo(ValueAlphabet, MaxValueLen)
        \cup {<<1, 2, 3>>, <<42, 0, 0, 0>>, <<7, 0, 0, 0, 0, 0, 0, 0>>}
Deltas == {0, 1}

\* the frame of the metric "ultrasonic:distance" of type "u32" with value 42
\* at timestamp 1000
ExampleName ==
    <<117, 108, 116, 114, 97, 115, 111, 110, 105, 99, 58,
      100, 105, 115, 116, 97, 110, 99, 101>>
ExampleFrame ==
    FrameOf(BodyOf(1000, ExampleName, ScalarTag("U32"), <<42, 0, 0, 0>>), 0)

StructuredFrames ==
    {ExampleFrame} \cup
    {FrameOf(BodyOf(t, n, g, v), d) :
        t \in Timestamps, n \in Names, g \in Tags, v \in Values, d \in Deltas}
    \cup {FrameOf(ToLeBytes(t, 4) \o n, d) :
            t \in Timestamps, n \in Names, d \in Deltas}
    \cup {FrameOf(ToLeBytes(t, 4) \o n \o <<0>> \o g, 0) :
            t \in Timestamps, n \in Names, g \in Tags}

ParseFrames == ShortFrames \cup StructuredFrames

(***************************************************************************)
(* State.                                                                  *)
(***************************************************************************)
VARIABLES
    state,       \* SerialWorkerState behind the RwLock
    opt_reader,  \* the worker's transport handle: "None" or "Some"
    cmdQ,        \* command channel, controller -> worker
    metricQ,     \* metric channel, worker -> controller
    pc,          \* position of the worker thread in spawn()
    effect,      \* what the worker's latest step did to the transport
    dtr,         \* level of the data-terminal-ready line
    sent,        \* history: every command enqueued, in order
    dequeued,    \* history: every command the worker received, in order
    decoded,     \* history: every metric the worker sent, in order
    delivered,   \* history: every metric the new_metrics() iterators yielded
    repainted,   \* whether the worker's latest step called self.repaint()
    iter,        \* the iterator new_metrics() returned: "none" or "live"
    frame,       \* parser check: the frame handed to read_packet
    result,      \* parser check: what read_packet returned for it
    arg,         \* function check: the function called and its arguments
    ret,         \* function check: what the call returned
    pause_packets,    \* Application: the "Pause packets" checkbox
    current_time,     \* Application: timestamp of the latest telemetry packet
    packets,          \* Application: ring of the latest packets
    metrics_history,  \* Application: per metric name, ring of (timestamp, value)
    seen,        \* history: timestamp of every telemetry packet ingested
    clears,      \* history: positions in seen at which update() cleared
    manual,      \* history: whether a clock or clear button was clicked
    scratch,     \* read_cobs: the Vec<u8> the worker hands to every call
    stream,      \* read_cobs: the bytes the transport has yet to deliver
    calls,       \* history: the bytes each read_cobs call read and its result
    detacher,    \* the TCP side listener: its position and latest connection
    detach_flag,    \* flag-based worker: the shared AtomicBool `detach`
    connected_flag, \* flag-based worker: the shared AtomicBool `connected`
    flag_reader,    \* flag-based worker: its opt_reader
    flag_pc,        \* flag-based worker: the position of the worker thread
    park_token,     \* flag-based worker: the unpark token of the worker thread
    packet_rx,      \* history: every packet sent on packet_tx, in order
    callers         \* flag-based worker: where each caller of attach() is

\* the variables of the Application
app == <<pause_packets, current_time, packets, metrics_history,
         seen, clears, manual>>

\* the variables of the check of read_cobs
cobsVars == <<scratch, stream, calls>>

\* the variables of the checks of single functions, of the Application and
\* of the side listener
\* the variables of the flag-based worker
flagVars == <<detach_flag, connected_flag, flag_reader, flag_pc, park_token,
              packet_rx, callers>>

aux == <<arg, ret, app, cobsVars, detacher, flagVars>>

\* the variables of the worker, the controller and the parser check
main == <<state, opt_reader, cmdQ, metricQ, pc, effect, dtr,
          sent, dequeued, decoded, delivered, repainted, iter, frame, result>>

vars == <<state, opt_reader, cmdQ, metricQ, pc, effect, dtr,
          sent, dequeued, decoded, delivered, repainted, iter, frame, result,
          aux>>

SerialWorkerState == {"Resetting", "Connected", "Disconnected", "Detached"}

Detach == <<"Detach">>
Attach == <<"Attach">>
Reset == <<"Reset">>
SendCommand(c) == <<"SendCommand", c>>
\* RobotCommand as u8
RobotCommand == {0, 1}
SerialWorkerCommand ==
    {Detach, Attach, Reset} \cup {SendCommand(c) : c \in RobotCommand}

\* a worker step: the transport operation, the bytes written, the outcome of
\* a read
\* a read, and for a read that failed in read_until the io::ErrorKind
Effect(op, bytes, outcome) ==
    [op |-> op, bytes |-> bytes, outcome |-> outcome, io |-> "none"]
NoEffect == Effect("none", <<>>, "none")
NoResult == [tag |-> "None"]
NoArg == [fn |-> "none"]
NoRet == [tag |-> "None"]
Ret(v) == [tag |-> "Ret", v |-> v]

\* no function check is under way
CallIdle ==
    /\ arg = NoArg
    /\ ret = NoRet

\* the Application as main() constructs it
AppStart ==
    /\ pause_packets = FALSE
    /\ current_time = 0
    /\ packets = <<>>
    /\ metrics_history = <<>>
    /\ seen = <<>>
    /\ clears = {}
    /\ manual = FALSE

\* read_cobs has not been called and nothing is pending
CobsIdle ==
    /\ scratch = <<>>
    /\ stream = <<>>
    /\ calls = <<>>

\* detacher::main is about to bind its listener; no connection was served
DetacherStart == detacher = [pc |-> "start", peer |-> <<>>, last |-> "none"]

\* the threads that call detach() and attach(): the owner of the controller
\* and the TCP side listener
Callers == {"ui", "tcp"}

\* SerialWorkerController::spawn of the flag-based worker: both flags false,
\* the worker thread at the top of its loop without a reader
FlagStart ==
    /\ detach_flag = FALSE
    /\ connected_flag = FALSE
    /\ flag_reader = "None"
    /\ flag_pc = "top"
    /\ park_token = FALSE
    /\ packet_rx = <<>>
    /\ callers = [c \in Callers |-> "idle"]

AuxInit ==
    /\ CallIdle
    /\ AppStart
    /\ CobsIdle
    /\ DetacherStart
    /\ FlagStart

\* the frames the device sends in the worker model: two metrics, one frame of
\* each rejected kind and one frame shorter than a timestamp
Metric1Frame == FrameOf(BodyOf(1000, <<97>>, ScalarTag("U8"), <<1>>), 0)
Metric2Frame == FrameOf(BodyOf(1000, <<97>>, ScalarTag("U8"), <<2>>), 0)
WorkerFrames ==
    {Metric1Frame, Metric2Frame,
     FrameOf(BodyOf(1000, <<97>>, ScalarTag("U8"), <<1>>), 1),
     FrameOf(ToLeBytes(1000, 4) \o <<97>>, 0),
     FrameOf(BodyOf(1000, <<97>>, ScalarTag("U8"), <<1, 1>>), 0),
     FrameOf(<<>>, 0)}

\* std::io::ErrorKind values a read can fail with
IoErrorKinds == {"TimedOut", "PermissionDenied", "BrokenPipe"}

\* a conversion whose catch-all arm takes the error for a timeout
TransportErrorFrom_OtherTimesOut(kind) ==
    CASE kind = "TimedOut"         -> "TimedOut"
      [] kind = "PermissionDenied" -> "SerialPortDisconnected"
      [] OTHER                     -> "TimedOut"

\* impl From<io::Error> for TransportError
TransportErrorFrom(kind) ==
    CASE kind = "TimedOut"         -> "TimedOut"
      [] kind = "PermissionDenied" -> "SerialPortDisconnected"
      [] OTHER                     -> "SerialPortDisconnected"

\* what read_cobs can hand back: an io error of read_until, a stuffing error
\* or a frame
ReadCobsResults ==
    {[tag |-> "Err", err |-> TransportErrorFrom(k), io |-> k] : k \in IoErrorKinds}
        \cup {[tag |-> "Err", err |-> "MalformedCOBS", io |-> "none"]}
        \cup {[tag |-> "Ok", buffer |-> f, io |-> "none"] : f \in WorkerFrames}

\* read_packet on top of read_cobs: `self.read_cobs(reader, buffer)?`
ReadPacketOn(cobs) ==
    IF cobs.tag = "Err" THEN cobs ELSE read_packet(cobs.buffer)

\* the outcome recorded for a read
OutcomeOf(r) == IF r.tag = "Err" THEN r.err ELSE r.tag

Init ==
    /\ state = "Disconnected"
    /\ opt_reader = "None"
    /\ cmdQ = <<>>
    /\ metricQ = <<>>
    /\ pc = "drain"
    /\ effect = NoEffect
    /\ dtr = FALSE
    /\ sent = <<>>
    /\ dequeued = <<>>
    /\ decoded = <<>>
    /\ delivered = <<>>
    /\ repainted = FALSE
    /\ iter = "none"
    /\ frame = <<>>
    /\ result = NoResult
    /\ AuxInit

(***************************************************************************)
(* std::sync::mpsc channels.                                               *)
(***************************************************************************)
\* a channel that hands the newest item out first
ChannelSend_Stack(queue, item) == <<item>> \o queue

\* Sender::send: the channel is a FIFO queue
ChannelSend(queue, item) == Append(queue, item)

\* a receiver that takes the newest item
ChannelRecv_Newest(queue) ==
    [item |-> queue[Len(queue)], rest |-> SubSeq(queue, 1, Len(queue) - 1)]

\* Receiver::try_recv / recv on a non-empty channel: the oldest item
ChannelRecv(queue) == [item |-> Head(queue), rest |-> Tail(queue)]

(***************************************************************************)
(* SerialWorkerController: every operation only sends on a channel.  A     *)
(* send on the command channel fails once the worker has unwound and       *)
(* dropped its receiver, so nothing is enqueued then.                      *)
(***************************************************************************)
\* a detach() that also publishes the state itself
Send_WritesState(command) ==
    /\ pc # "panicked"
    /\ Len(sent) < MaxCmds
    /\ cmdQ' = ChannelSend(cmdQ, command)
    /\ sent' = Append(sent, command)
    /\ state' = IF command = Detach THEN "Detached" ELSE state
    /\ UNCHANGED <<opt_reader, metricQ, pc, effect, dtr,
                   dequeued, decoded, delivered, repainted, iter, frame, result, aux>>

Send(command) ==
    /\ pc # "panicked"
    /\ Len(sent) < MaxCmds
    /\ cmdQ' = ChannelSend(cmdQ, command)
    /\ sent' = Append(sent, command)
    /\ UNCHANGED <<state, opt_reader, metricQ, pc, effect, dtr,
                   dequeued, decoded, delivered, repainted, iter, frame, result, aux>>

detach == Send(Detach)

attach == Send(Attach)

reset == Send(Reset)

send_command == \E c \in RobotCommand : Send(SendCommand(c))

\* new_metrics(): metric_rx.try_iter() hands out an iterator; the caller
\* drains one iterator at a time
new_metrics ==
    /\ iter = "none"
    /\ iter' = "live"
    /\ UNCHANGED <<state, opt_reader, cmdQ, metricQ, pc, effect, dtr,
                   sent, dequeued, decoded, delivered, repainted, frame, result, aux>>

\* an iterator whose next() waits for an item, as Receiver::iter() does
try_iter_next_Blocking ==
    /\ iter = "live"
    /\ metricQ # <<>>
    /\ delivered' = Append(delivered, ChannelRecv(metricQ).item)
    /\ metricQ' = ChannelRecv(metricQ).rest
    /\ UNCHANGED <<state, opt_reader, cmdQ, pc, effect, dtr,
                   sent, dequeued, decoded, repainted, iter, frame, result, aux>>

\* one next() of that iterator: try_recv().ok(), the oldest queued metric or
\* None, which ends the caller's loop
try_iter_next ==
    /\ iter = "live"
    /\ IF metricQ # <<>>
       THEN /\ delivered' = Append(delivered, ChannelRecv(metricQ).item)
            /\ metricQ' = ChannelRecv(metricQ).rest
            /\ iter' = "live"
       ELSE /\ iter' = "none"
            /\ UNCHANGED <<delivered, metricQ>>
    /\ UNCHANGED <<state, opt_reader, cmdQ, pc, effect, dtr,
                   sent, dequeued, decoded, repainted, frame, result, aux>>

(***************************************************************************)
(* SerialWorker::spawn.  pc is the position of the worker thread:          *)
(*   "drain"        in `for command in self.command_rx.try_iter()`         *)
(*   "wait_attach"  in `self.command_rx.recv()` of the Detach arm          *)
(*   "resetting"    in the sleep between the two DTR writes                *)
(*   "io"           at `match &mut opt_reader`                             *)
(*   "panicked"     the thread has unwound                                 *)
(***************************************************************************)
\* the worker takes the next command off the command channel
Dequeue ==
    /\ cmdQ # <<>>
    /\ cmdQ' = ChannelRecv(cmdQ).rest
    /\ dequeued' = Append(dequeued, ChannelRecv(cmdQ).item)

\* an operation on the transport that the code unwraps: it succeeds or the
\* thread panics
IoOutcomes == {"Ok", "Err"}

\* try_iter() yields None: the for loop ends
DrainEmpty ==
    /\ pc = "drain"
    /\ cmdQ = <<>>
    /\ pc' = "io"
    /\ effect' = NoEffect
    /\ repainted' = FALSE
    /\ UNCHANGED <<state, opt_reader, cmdQ, metricQ, dtr,
                   sent, dequeued, decoded, delivered, iter, frame, result, aux>>

\* a Detach arm without `opt_reader.take()`
DetachArm_KeepsReader(reader) ==
    [opt_reader |-> reader, state |-> "Detached", pc |-> "wait_attach",
     effect |-> NoEffect, repaint |-> TRUE]

\* SerialWorkerCommand::Detach, up to the first recv()
DetachArm(reader) ==
    [opt_reader |-> "None", state |-> "Detached", pc |-> "wait_attach",
     effect |-> IF reader = "Some" THEN Effect("release", <<>>, "none")
                ELSE NoEffect,
     repaint |-> TRUE]

ApplyDetach ==
    /\ pc = "drain"
    /\ Dequeue
    /\ ChannelRecv(cmdQ).item = Detach
    /\ LET arm == DetachArm(opt_reader)
       IN  /\ opt_reader' = arm.opt_reader
           /\ state' = arm.state
           /\ pc' = arm.pc
           /\ effect' = arm.effect
           /\ repainted' = arm.repaint
    /\ UNCHANGED <<metricQ, dtr, sent, decoded, delivered, iter, frame, result, aux>>

\* a wait loop that publishes Connected on Attach
WaitArm_AttachConnects(command) ==
    IF command = Attach
    THEN [state |-> "Connected", pc |-> "drain", repaint |-> TRUE]
    ELSE [state |-> state, pc |-> "wait_attach", repaint |-> FALSE]

\* a wait loop that any command ends
WaitArm_AnyBreaks(command) ==
    [state |-> "Disconnected", pc |-> "drain", repaint |-> TRUE]

\* the match inside the wait loop: Attach breaks out of it and the state is
\* set to Disconnected, anything else is logged and dropped
WaitArm(command) ==
    IF command = Attach
    THEN [state |-> "Disconnected", pc |-> "drain", repaint |-> TRUE]
    ELSE [state |-> state, pc |-> "wait_attach", repaint |-> FALSE]

\* one recv() of the wait loop; it blocks while the channel is empty
WaitAttach ==
    /\ pc = "wait_attach"
    /\ Dequeue
    /\ LET arm == WaitArm(ChannelRecv(cmdQ).item)
       IN  /\ state' = arm.state
           /\ pc' = arm.pc
           /\ repainted' = arm.repaint
    /\ effect' = NoEffect
    /\ UNCHANGED <<opt_reader, metricQ, dtr, sent, decoded, delivered,
                   iter, frame, result, aux>>

\* an Attach arm that starts over: it drops the reader and publishes
\* Disconnected
ApplyAttach_StartsOver ==
    /\ pc = "drain"
    /\ Dequeue
    /\ ChannelRecv(cmdQ).item = Attach
    /\ opt_reader' = "None"
    /\ state' = "Disconnected"
    /\ effect' = NoEffect
    /\ repainted' = TRUE
    /\ UNCHANGED <<metricQ, pc, dtr, sent, decoded,
                   delivered, iter, frame, result, aux>>

\* SerialWorkerCommand::Attach while attached: a warning
ApplyAttach ==
    /\ pc = "drain"
    /\ Dequeue
    /\ ChannelRecv(cmdQ).item = Attach
    /\ effect' = NoEffect
    /\ repainted' = FALSE
    /\ UNCHANGED <<state, opt_reader, metricQ, pc, dtr, sent, decoded,
                   delivered, iter, frame, result, aux>>

\* a Reset arm that does not look at opt_reader
ResetArm_Always(reader) == "pulse"

\* `match &mut opt_reader` of the Reset arm
ResetArm(reader) == IF reader = "Some" THEN "pulse" ELSE "warn"

\* SerialWorkerCommand::Reset up to the sleep: the state is set to Resetting
\* and DTR is asserted; the write is unwrapped
ApplyReset ==
    /\ pc = "drain"
    /\ Dequeue
    /\ ChannelRecv(cmdQ).item = Reset
    /\ IF ResetArm(opt_reader) = "pulse"
       THEN /\ state' = "Resetting"
            /\ \E io \in IoOutcomes :
                 IF io = "Ok"
                 THEN /\ dtr' = TRUE
                      /\ pc' = "resetting"
                      /\ effect' = Effect("dtr_on", <<>>, "none")
                 ELSE /\ dtr' = dtr
                      /\ pc' = "panicked"
                      /\ effect' = Effect("dtr_panic", <<>>, "none")
       ELSE /\ effect' = NoEffect
            /\ UNCHANGED <<state, dtr, pc>>
    /\ repainted' = FALSE
    /\ UNCHANGED <<opt_reader, metricQ, sent, decoded, delivered, iter,
                   frame, result, aux>>

\* a Reset arm that never publishes Connected again after the pulse
ResetPulseEnd_StaysResetting ==
    /\ pc = "resetting"
    /\ \E io \in IoOutcomes :
         IF io = "Ok"
         THEN /\ dtr' = FALSE
              /\ pc' = "drain"
              /\ effect' = Effect("dtr_off", <<>>, "none")
         ELSE /\ pc' = "panicked"
              /\ effect' = Effect("dtr_panic", <<>>, "none")
              /\ dtr' = dtr
    /\ repainted' = FALSE
    /\ UNCHANGED <<state, opt_reader, cmdQ, metricQ, sent, dequeued, decoded,
                   delivered, iter, frame, result, aux>>

\* after the sleep: DTR is deasserted (unwrapped) and the state is set to
\* Connected
ResetPulseEnd ==
    /\ pc = "resetting"
    /\ \E io \in IoOutcomes :
         IF io = "Ok"
         THEN /\ dtr' = FALSE
              /\ state' = "Connected"
              /\ pc' = "drain"
              /\ effect' = Effect("dtr_off", <<>>, "none")
         ELSE /\ pc' = "panicked"
              /\ effect' = Effect("dtr_panic", <<>>, "none")
              /\ UNCHANGED <<dtr, state>>
    /\ repainted' = FALSE
    /\ UNCHANGED <<opt_reader, cmdQ, metricQ, sent, dequeued, decoded,
                   delivered, iter, frame, result, aux>>

\* SerialWorkerCommand::SendCommand(command): write_all(&[command as u8]) and
\* flush, both unwrapped
ApplySendCommand ==
    /\ pc = "drain"
    /\ Dequeue
    /\ \E c \in RobotCommand :
         /\ ChannelRecv(cmdQ).item = SendCommand(c)
         /\ IF opt_reader = "Some"
            THEN \E io \in IoOutcomes :
                   IF io = "Ok"
                   THEN /\ effect' = Effect("write", <<c>>, "none")
                        /\ pc' = pc
                   ELSE /\ effect' = Effect("write_panic", <<>>, "none")
                        /\ pc' = "panicked"
            ELSE /\ effect' = NoEffect
                 /\ pc' = pc
    /\ repainted' = FALSE
    /\ UNCHANGED <<state, opt_reader, metricQ, dtr, sent, decoded, delivered,
                   iter, frame, result, aux>>

\* serialport::open as seen by connect(): Ok, Err(NoDevice) or another error
OpenResults == {"Ok", "NoDevice", "Other"}

\* a connect branch that publishes Connected whatever connect() returned
ConnectArm_AlwaysConnected(open) ==
    CASE open = "Ok" ->
           [opt_reader |-> "Some", state |-> "Connected", pc |-> "drain",
            effect |-> Effect("open", <<>>, "none"), repaint |-> TRUE]
      [] open = "NoDevice" ->
           [opt_reader |-> opt_reader, state |-> "Connected", pc |-> "drain",
            effect |-> Effect("open_nodevice", <<>>, "none"), repaint |-> TRUE]
      [] open = "Other" ->
           [opt_reader |-> opt_reader, state |-> state, pc |-> "panicked",
            effect |-> Effect("open_panic", <<>>, "none"), repaint |-> FALSE]

\* a connect branch that reports the fatal error by publishing Detached
\* before it panics
ConnectArm_PanicPublishes(open) ==
    CASE open = "Ok" ->
           [opt_reader |-> "Some", state |-> "Connected", pc |-> "drain",
            effect |-> Effect("open", <<>>, "none"), repaint |-> TRUE]
      [] open = "NoDevice" ->
           [opt_reader |-> opt_reader, state |-> state, pc |-> "drain",
            effect |-> Effect("open_nodevice", <<>>, "none"), repaint |-> FALSE]
      [] open = "Other" ->
           [opt_reader |-> opt_reader, state |-> "Detached", pc |-> "panicked",
            effect |-> Effect("open_panic", <<>>, "none"), repaint |-> TRUE]

\* connect() and the match on its result: Ok stores the reader, publishes
\* Connected and repaints; NoDevice sleeps a second; any other error panics
ConnectArm(open) ==
    CASE open = "Ok" ->
           [opt_reader |-> "Some", state |-> "Connected", pc |-> "drain",
            effect |-> Effect("open", <<>>, "none"), repaint |-> TRUE]
      [] open = "NoDevice" ->
           [opt_reader |-> opt_reader, state |-> state, pc |-> "drain",
            effect |-> Effect("open_nodevice", <<>>, "none"), repaint |-> FALSE]
      [] open = "Other" ->
           [opt_reader |-> opt_reader, state |-> state, pc |-> "panicked",
            effect |-> Effect("open_panic", <<>>, "none"), repaint |-> FALSE]

\* the None arm of `match &mut opt_reader`: self.connect() and its match
Connect ==
    /\ pc = "io"
    /\ opt_reader = "None"
    /\ \E open \in OpenResults :
         LET arm == ConnectArm(open)
         IN  /\ opt_reader' = arm.opt_reader
             /\ state' = arm.state
             /\ pc' = arm.pc
             /\ effect' = arm.effect
             /\ repainted' = arm.repaint
    /\ UNCHANGED <<cmdQ, metricQ, dtr, sent, dequeued, decoded, delivered,
                   iter, frame, result, aux>>

\* a match that treats every error but a timeout as a disconnect
ReadArm_ErrDisconnects(r) ==
    CASE r.tag = "Panic" ->
           [opt_reader |-> opt_reader, state |-> state, pc |-> "panicked",
            send |-> FALSE, repaint |-> FALSE]
      [] r.tag = "Ok" ->
           [opt_reader |-> opt_reader, state |-> state, pc |-> "drain",
            send |-> TRUE, repaint |-> TRUE]
      [] r.tag = "Err" /\ r.err = "TimedOut" ->
           [opt_reader |-> opt_reader, state |-> state, pc |-> "drain",
            send |-> FALSE, repaint |-> FALSE]
      [] OTHER ->
           [opt_reader |-> "None", state |-> "Disconnected", pc |-> "drain",
            send |-> FALSE, repaint |-> TRUE]

\* a match that drops the connection on a timeout as well
ReadArm_TimeoutDisconnects(r) ==
    CASE r.tag = "Panic" ->
           [opt_reader |-> opt_reader, state |-> state, pc |-> "panicked",
            send |-> FALSE, repaint |-> FALSE]
      [] r.tag = "Ok" ->
           [opt_reader |-> opt_reader, state |-> state, pc |-> "drain",
            send |-> TRUE, repaint |-> TRUE]
      [] r.tag = "Err" /\ r.err \in {"SerialPortDisconnected", "TimedOut"} ->
           [opt_reader |-> "None", state |-> "Disconnected", pc |-> "drain",
            send |-> FALSE, repaint |-> TRUE]
      [] OTHER ->
           [opt_reader |-> opt_reader, state |-> state, pc |-> "drain",
            send |-> FALSE, repaint |-> FALSE]

\* a match whose disconnect arm publishes Disconnected and keeps the reader
ReadArm_DisconnectKeepsReader(r) ==
    CASE r.tag = "Panic" ->
           [opt_reader |-> opt_reader, state |-> state, pc |-> "panicked",
            send |-> FALSE, repaint |-> FALSE]
      [] r.tag = "Ok" ->
           [opt_reader |-> opt_reader, state |-> state, pc |-> "drain",
            send |-> TRUE, repaint |-> TRUE]
      [] r.tag = "Err" /\ r.err = "SerialPortDisconnected" ->
           [opt_reader |-> opt_reader, state |-> "Disconnected", pc |-> "drain",
            send |-> FALSE, repaint |-> TRUE]
      [] OTHER ->
           [opt_reader |-> opt_reader, state |-> state, pc |-> "drain",
            send |-> FALSE, repaint |-> FALSE]

\* the arms of `match self.read_packet(reader, &mut packet_buffer)`: what
\* becomes of the handle, the state and the worker, whether a metric is
\* sent and whether repaint is called
ReadArm(r) ==
    CASE r.tag = "Panic" ->
           [opt_reader |-> opt_reader, state |-> state, pc |-> "panicked",
            send |-> FALSE, repaint |-> FALSE]
      [] r.tag = "Ok" ->
           [opt_reader |-> opt_reader, state |-> state, pc |-> "drain",
            send |-> TRUE, repaint |-> TRUE]
      [] r.tag = "Err" /\ r.err = "SerialPortDisconnected" ->
           [opt_reader |-> "None", state |-> "Disconnected", pc |-> "drain",
            send |-> FALSE, repaint |-> TRUE]
      [] OTHER ->
           [opt_reader |-> opt_reader, state |-> state, pc |-> "drain",
            send |-> FALSE, repaint |-> FALSE]

\* the Some arm of `match &mut opt_reader`: one read_packet and its match
ReadStep ==
    /\ pc = "io"
    /\ opt_reader = "Some"
    /\ \E cobs \in ReadCobsResults :
         LET r   == ReadPacketOn(cobs)
             arm == ReadArm(r)
         IN  /\ r.tag = "Ok" => Len(decoded) < MaxMetrics
             /\ opt_reader' = arm.opt_reader
             /\ state' = arm.state
             /\ pc' = arm.pc
             /\ effect' = [Effect("read", <<>>, OutcomeOf(r)) EXCEPT !.io = cobs.io]
             /\ repainted' = arm.repaint
             /\ IF arm.send
                THEN /\ metricQ' = ChannelSend(metricQ, r.metric)
                     /\ decoded' = Append(decoded, r.metric)
                ELSE UNCHANGED <<metricQ, decoded>>
    /\ UNCHANGED <<cmdQ, dtr, sent, dequeued, delivered, iter, frame, result, aux>>

Worker ==
    \/ DrainEmpty
    \/ ApplyDetach
    \/ WaitAttach
    \/ ApplyAttach
    \/ ApplyReset
    \/ ResetPulseEnd
    \/ ApplySendCommand
    \/ Connect
    \/ ReadStep

Next ==
    \/ detach
    \/ attach
    \/ reset
    \/ send_command
    \/ new_metrics
    \/ try_iter_next
    \/ DrainEmpty
    \/ ApplyDetach
    \/ WaitAttach
    \/ ApplyAttach
    \/ ApplyReset
    \/ ResetPulseEnd
    \/ ApplySendCommand
    \/ Connect
    \/ ReadStep

Spec == Init /\ [][Next]_vars

\* the operations left when detach() is never called
NoDetachNext ==
    \/ attach
    \/ reset
    \/ send_command
    \/ new_metrics
    \/ try_iter_next
    \/ DrainEmpty
    \/ ApplyAttach
    \/ ApplyReset
    \/ ResetPulseEnd
    \/ ApplySendCommand
    \/ Connect
    \/ ReadStep

\* the caller of new_metrics consumes a metric the iterator has yielded: it
\* leaves the record of produced and yielded metrics, so that the worker can
\* go on producing
Forget ==
    /\ delivered # <<>>
    /\ Head(delivered) = Head(decoded)
    /\ delivered' = Tail(delivered)
    /\ decoded' = Tail(decoded)
    /\ UNCHANGED <<state, opt_reader, cmdQ, metricQ, pc, effect, dtr,
                   sent, dequeued, repainted, iter, frame, result, aux>>

\* a worker that keeps enqueuing metrics while the caller of new_metrics
\* keeps calling next(); both threads keep being scheduled
FloodSpec ==
    /\ Init
    /\ [][Next \/ Forget]_vars
    /\ WF_vars(Worker)
    /\ WF_vars(try_iter_next)

\* no Detach is ever issued and the worker thread keeps being scheduled
NoDetachSpec == Init /\ [][NoDetachNext]_vars /\ WF_vars(Worker)

\* the worker thread keeps being scheduled
FairSpec == Spec /\ WF_vars(Worker)

(***************************************************************************)
(* The parser on its own: a frame is drawn and read_packet is applied.     *)
(***************************************************************************)
ParseInit ==
    /\ state = "Disconnected"
    /\ opt_reader = "None"
    /\ cmdQ = <<>>
    /\ metricQ = <<>>
    /\ pc = "drain"
    /\ effect = NoEffect
    /\ dtr = FALSE
    /\ sent = <<>>
    /\ dequeued = <<>>
    /\ decoded = <<>>
    /\ delivered = <<>>
    /\ repainted = FALSE
    /\ iter = "none"
    /\ frame \in ParseFrames
    /\ result = NoResult
    /\ AuxInit

ReadPacket ==
    /\ result = NoResult
    /\ result' = read_packet(frame)
    /\ UNCHANGED <<aux, frame, state, opt_reader, cmdQ, metricQ, pc, effect, dtr,
                   sent, dequeued, decoded, delivered, repainted, iter>>

ParseNext == ReadPacket

ParseSpec == ParseInit /\ [][ParseNext]_vars

(***************************************************************************)
(* Single functions on their own: a call is drawn and the function is      *)
(* applied to its arguments.                                               *)
(***************************************************************************)
\* n zero bytes
Zeros(n) == [i \in 1..n |-> 0]

\* the byte strings handed to from_bytes: every length from 0 to
\* MaxValueLen + MaxPad, and the largest i32
CodecBytes ==
    {b \o Zeros(k) : b \in SeqsUpTo(ValueAlphabet, MaxValueLen), k \in 0..MaxPad}
        \cup {<<255, 255, 255, 127>>, <<255, 127, 0, 1>>}

\* the tags handed to from_bytes: those of the frames and "", "u8 ", "[u8",
\* "u128", "Bool", "[U8]"
CodecTags ==
    Tags \cup {<<>>, <<117, 56, 32>>, <<91, 117, 56>>, <<117, 49, 50, 56>>,
               <<66, 111, 111, 108>>, <<91, 85, 56, 93>>}

\* values of each integer type: zero, the ends of its range, byte borders
IntTypes == {"U8", "U16", "U32", "U64", "I8", "I16", "I32", "I64"}
IntSamples(t) ==
    CASE t = "U8"  -> {0, 1, 255}
      [] t = "U16" -> {0, 1, 255, 256, 65535}
      [] t = "U32" -> {0, 255, 65536, 2147483647}
      [] t = "U64" -> {0, 255, 65536, 2147483647}
      [] t = "I8"  -> {0 - 128, 0 - 1, 0, 1, 127}
      [] t = "I16" -> {0 - 32768, 0 - 256, 0 - 1, 0, 256, 32767}
      [] t = "I32" -> {0 - 65536, 0 - 1, 0, 2147483647}
      [] t = "I64" -> {0 - 2147483647, 0 - 1, 0, 2147483647}

\* xN::to_le_bytes on the device: two's complement for a negative x
LeOf(x, w) ==
    IF x >= 0 THEN ToLeBytes(x, w)
    ELSE [i \in 1..w |-> 255 - ToLeBytes(0 - x - 1, w)[i]]

\* the wire layout of an array: the elements one after the other
RECURSIVE LeSeq(_, _)
LeSeq(xs, w) == IF xs = <<>> THEN <<>> ELSE LeOf(Head(xs), w) \o LeSeq(Tail(xs), w)

\* the calls of from_bytes: every tag with every byte string, and every
\* integer tag with the encodings of its values
CodecCalls ==
    {<<ty, bytes>> : ty \in CodecTags, bytes \in CodecBytes}
        \cup UNION {{<<ScalarTag(t), LeOf(x, SizeOf(t))>> : x \in IntSamples(t)} :
                        t \in IntTypes}
        \cup UNION {{<<ArrayTag(t), LeSeq(xs, SizeOf(t))>> :
                            xs \in SeqsUpTo(IntSamples(t), 2)} : t \in IntTypes}

\* the values handed to the accessors: everything from_bytes returns for
\* its calls, and Unknown("v3", [1, 2, 3])
FocusValues ==
    {from_bytes(call[1], call[2]).value :
        call \in {c \in CodecCalls : from_bytes(c[1], c[2]).tag = "Ok"}}
        \cup {<<"Unknown", <<118, 51>>, <<1, 2, 3>>>>}

\* the strings handed to from_str: every string of 'a', 'b', 'c' and ':' up
\* to MaxNameLen
NameStrings == SeqsUpTo({97, 98, 99, 58}, MaxNameLen)

\* the timestamps handed to the subtraction, up to the largest integer of
\* the checker
SubTimestamps == {0, 1, 80, 100, 250, 1000, 2147483646, 2147483647}

\* the worker and the parser check stand still during a function check
MainIdle ==
    /\ state = "Disconnected"
    /\ opt_reader = "None"
    /\ cmdQ = <<>>
    /\ metricQ = <<>>
    /\ pc = "drain"
    /\ effect = NoEffect
    /\ dtr = FALSE
    /\ sent = <<>>
    /\ dequeued = <<>>
    /\ decoded = <<>>
    /\ delivered = <<>>
    /\ repainted = FALSE
    /\ iter = "none"
    /\ frame = <<>>
    /\ result = NoResult

CallInit ==
    /\ MainIdle
    /\ AppStart
    /\ CobsIdle
    /\ DetacherStart
    /\ FlagStart
    /\ ret = NoRet
    /\ \/ \E call \in CodecCalls :
            arg = [fn |-> "from_bytes", ty |-> call[1], bytes |-> call[2]]
       \/ \E value \in FocusValues :
            arg = [fn |-> "is_focusable", value |-> value]
       \/ \E value \in FocusValues :
            arg = [fn |-> "accessors", value |-> value]
       \/ \E str \in NameStrings :
            arg = [fn |-> "from_str", s |-> str]
       \/ \E a \in SubTimestamps, b \in SubTimestamps :
            arg = [fn |-> "sub", a |-> a, b |-> b]

\* MetricValue::from_bytes(ty, bytes)
FromBytes ==
    /\ arg.fn = "from_bytes"
    /\ ret = NoRet
    /\ ret' = Ret(from_bytes(arg.ty, arg.bytes))
    /\ UNCHANGED <<main, arg, app, cobsVars, detacher, flagVars>>

\* the four accessors and the is_focusable of latest_metrics on one value
IsFocusable ==
    /\ arg.fn = "is_focusable"
    /\ ret = NoRet
    /\ ret' = Ret([as_float            |-> as_float(arg.value),
                   as_signed_integer   |-> as_signed_integer(arg.value),
                   as_unsigned_integer |-> as_unsigned_integer(arg.value),
                   as_bool             |-> as_bool(arg.value),
                   is_focusable        |-> is_focusable(arg.value)])
    /\ UNCHANGED <<main, arg, app, cobsVars, detacher, flagVars>>

\* the four scalar accessors and the four *_iter accessors on one value, an
\* iterator given as the sequence it yields
Accessors ==
    /\ arg.fn = "accessors"
    /\ ret = NoRet
    /\ ret' = Ret([as_bool                  |-> as_bool(arg.value),
                   as_unsigned_integer      |-> as_unsigned_integer(arg.value),
                   as_signed_integer        |-> as_signed_integer(arg.value),
                   as_float                 |-> as_float(arg.value),
                   as_bool_iter             |-> as_bool_iter(arg.value),
                   as_unsigned_integer_iter |-> as_unsigned_integer_iter(arg.value),
                   as_signed_integer_iter   |-> as_signed_integer_iter(arg.value),
                   as_float_iter            |-> as_float_iter(arg.value)])
    /\ UNCHANGED <<main, arg, app, cobsVars, detacher, flagVars>>

\* s.parse::<MetricName>() followed by flatten()
FromStr ==
    /\ arg.fn = "from_str"
    /\ ret = NoRet
    /\ ret' = Ret([name |-> from_str(arg.s), flat |-> Flatten(from_str(arg.s))])
    /\ UNCHANGED <<main, arg, app, cobsVars, detacher, flagVars>>

\* Timestamp::sub
Sub ==
    /\ arg.fn = "sub"
    /\ ret = NoRet
    /\ ret' = Ret(TimestampSub(arg.a, arg.b))
    /\ UNCHANGED <<main, arg, app, cobsVars, detacher, flagVars>>

CallNext ==
    \/ FromBytes
    \/ IsFocusable
    \/ Accessors
    \/ FromStr
    \/ Sub

CallSpec == CallInit /\ [][CallNext]_vars

(***************************************************************************)
(* Application::update (src/app.rs): the ingestion loop and the buttons    *)
(* that write the same fields.                                             *)
(***************************************************************************)
\* the packets new_packets() yields: telemetry of two metrics at timestamps
\* around the example [100, 250, 80], and a system packet
AppTimestamps == {80, 100, 250}
AppNames == {<<"Name", <<97>>>>, <<"Name", <<98>>>>}
TelemetryPackets ==
    {[kind |-> "Telemetry", timestamp |-> t, name |-> n, value |-> <<"One", "U8", 1>>] :
        t \in AppTimestamps, n \in AppNames}
SystemPackets == {[kind |-> "System", packet |-> "SerialConnect"]}

\* AllocRingBuffer::push: the oldest element makes room when the ring is full
Push(ring, item) ==
    IF Len(ring) >= RingCap THEN Append(Tail(ring), item) ELSE Append(ring, item)

\* a check that never sees a reboot
Rebooted_Never(timestamp, current) == FALSE

\* `metric.timestamp < self.current_time`
Rebooted(timestamp, current) == timestamp < current

\* metrics_history.entry(name).or_insert_with(new_packet_ring_buffer).push(item)
EntryPush(history, name, item) ==
    [n \in DOMAIN history \cup {name} |->
        IF n = name
        THEN Push(IF n \in DOMAIN history THEN history[n] ELSE <<>>, item)
        ELSE history[n]]

\* one iteration of `for new_packet in self.serial.new_packets()` on a
\* telemetry packet
IngestTelemetry ==
    /\ ~pause_packets
    /\ Len(seen) < MaxPackets
    /\ \E packet \in TelemetryPackets :
        LET reboot  == Rebooted(packet.timestamp, current_time)
            ring    == IF reboot THEN <<>> ELSE packets
            history == IF reboot THEN <<>> ELSE metrics_history
        IN  /\ current_time' = packet.timestamp
            /\ metrics_history' =
                    EntryPush(history, packet.name,
                              <<packet.timestamp, packet.value>>)
            /\ packets' = Push(ring, packet)
            /\ seen' = Append(seen, packet.timestamp)
            /\ clears' = IF reboot THEN clears \cup {Len(seen) + 1} ELSE clears
    /\ UNCHANGED <<main, arg, ret, cobsVars, detacher, flagVars, pause_packets, manual>>

\* one iteration of that loop on a packet that is no telemetry
IngestSystem ==
    /\ ~pause_packets
    /\ \E packet \in SystemPackets : packets' = Push(packets, packet)
    /\ UNCHANGED <<main, arg, ret, cobsVars, detacher, flagVars, pause_packets, current_time, metrics_history,
                   seen, clears, manual>>

\* the "Pause packets" checkbox
TogglePause ==
    /\ pause_packets' = ~pause_packets
    /\ UNCHANGED <<main, arg, ret, cobsVars, detacher, flagVars, current_time, packets, metrics_history,
                   seen, clears, manual>>

\* the "Reset Clock" button
ResetClock ==
    /\ current_time' = 0
    /\ manual' = TRUE
    /\ UNCHANGED <<main, arg, ret, cobsVars, detacher, flagVars, pause_packets, packets, metrics_history,
                   seen, clears>>

\* the "Clear Metrics History" button
ClearMetricsHistory ==
    /\ metrics_history' = <<>>
    /\ manual' = TRUE
    /\ UNCHANGED <<main, arg, ret, cobsVars, detacher, flagVars, pause_packets, current_time, packets,
                   seen, clears>>

\* the "Clear Packets" button
ClearPackets ==
    /\ packets' = <<>>
    /\ manual' = TRUE
    /\ UNCHANGED <<main, arg, ret, cobsVars, detacher, flagVars, pause_packets, current_time, metrics_history,
                   seen, clears>>

\* the "Clear All" button
ClearAll ==
    /\ current_time' = 0
    /\ metrics_history' = <<>>
    /\ packets' = <<>>
    /\ manual' = TRUE
    /\ UNCHANGED <<main, arg, ret, cobsVars, detacher, flagVars, pause_packets, seen, clears>>

AppInit ==
    /\ MainIdle
    /\ CallIdle
    /\ CobsIdle
    /\ DetacherStart
    /\ FlagStart
    /\ AppStart

AppNext ==
    \/ IngestTelemetry
    \/ IngestSystem
    \/ TogglePause
    \/ ResetClock
    \/ ClearMetricsHistory
    \/ ClearPackets
    \/ ClearAll

AppSpec == AppInit /\ [][AppNext]_vars

(***************************************************************************)
(* FrameDecoder: SerialWorker::read_cobs (crates/serial/src/lib.rs) on a   *)
(* transport with pending bytes.                                           *)
(***************************************************************************)
\* postcard_cobs::decode_in_place from the code byte at src on, dest bytes
\* written so far: a code byte announces code - 1 data bytes, which move
\* down to dest, and a zero follows them unless the code is 0xFF or the
\* input ends; a code that reaches beyond the input is an error
RECURSIVE DecodeLoop(_, _, _)
DecodeLoop(buff, src, dest) ==
    IF src > Len(buff) THEN [ok |-> TRUE, len |-> dest, buff |-> buff]
    ELSE
    LET code == buff[src]
    IN  IF (src - 1) + code > Len(buff) /\ code # 1
        THEN [ok |-> FALSE, len |-> 0, buff |-> buff]
        ELSE
        LET k      == IF code > 1 THEN code - 1 ELSE 0
            copied == [i \in 1..Len(buff) |->
                          IF i > dest /\ i <= dest + k
                          THEN buff[src + (i - dest)] ELSE buff[i]]
            src2   == src + 1 + k
            dest2  == dest + k
            zero   == code # 255 /\ src2 <= Len(buff)
        IN  DecodeLoop(IF zero THEN [copied EXCEPT ![dest2 + 1] = 0] ELSE copied,
                       src2, IF zero THEN dest2 + 1 ELSE dest2)

decode_in_place(buff) == DecodeLoop(buff, 1, 0)

\* a call that leaves in the buffer what the last call left there
Cleared_Keeps(buf) == buf

\* buffer.clear()
Cleared(buf) == <<>>

\* read_cobs when read_until returns the bytes read, chunk: the slice
\* buffer[..len] is decoded in place and the frame is buffer[..len - 1] of it
read_cobs(buf, chunk) ==
    LET filled == Cleared(buf) \o chunk
        len    == Len(chunk)
        d      == decode_in_place(SubSeq(filled, 1, len))
    IN  [buffer |-> d.buff \o SubSeq(filled, len + 1, Len(filled)),
         result |-> IF d.ok
                    THEN [tag |-> "Ok", buffer |-> SubSeq(d.buff, 1, SatSub(d.len, 1))]
                    ELSE [tag |-> "Err", err |-> "MalformedCOBS", raw |-> d.buff]]

\* the pending bytes: every string of the delimiter, a code byte 2 and a
\* code byte 5 up to MaxStreamLen
CobsAlphabet == {0, 2, 5}
CobsStreams == SeqsUpTo(CobsAlphabet, MaxStreamLen)

CobsInit ==
    /\ MainIdle
    /\ CallIdle
    /\ AppStart
    /\ DetacherStart
    /\ FlagStart
    /\ scratch = <<>>
    /\ calls = <<>>
    /\ stream \in CobsStreams

\* read_cobs when read_until finds the delimiter: it reads up to and
\* including the first 0x00
ReadCobs ==
    /\ Len(calls) < MaxCalls
    /\ IndexOf(stream, 0, 1) # 0
    /\ LET n     == IndexOf(stream, 0, 1)
           chunk == SubSeq(stream, 1, n)
           r     == read_cobs(scratch, chunk)
       IN  /\ scratch' = r.buffer
           /\ stream' = SubSeq(stream, n + 1, Len(stream))
           /\ calls' = Append(calls, [chunk |-> chunk, result |-> r.result])
    /\ UNCHANGED <<main, arg, ret, app, detacher, flagVars>>

\* read_cobs when read_until fails after n bytes without a delimiter: the
\* bytes read stay in the buffer and `?` returns the converted error
ReadCobsFails ==
    /\ Len(calls) < MaxCalls
    /\ \E n \in 0..Len(stream), kind \in IoErrorKinds :
        /\ \A i \in 1..n : stream[i] # 0
        /\ scratch' = Cleared(scratch) \o SubSeq(stream, 1, n)
        /\ stream' = SubSeq(stream, n + 1, Len(stream))
        /\ calls' = Append(calls,
                           [chunk  |-> SubSeq(stream, 1, n),
                            result |-> [tag |-> "Err", err |-> TransportErrorFrom(kind),
                                        raw |-> <<>>]])
    /\ UNCHANGED <<main, arg, ret, app, detacher, flagVars>>

\* read_cobs when the transport reports end of input before a delimiter:
\* read_until returns what it read and that is decoded like a whole chunk
ReadCobsEof ==
    /\ Len(calls) < MaxCalls
    /\ IndexOf(stream, 0, 1) = 0
    /\ LET r == read_cobs(scratch, stream)
       IN  /\ scratch' = r.buffer
           /\ stream' = <<>>
           /\ calls' = Append(calls, [chunk |-> stream, result |-> r.result])
    /\ UNCHANGED <<main, arg, ret, app, detacher, flagVars>>

CobsNext ==
    \/ ReadCobs
    \/ ReadCobsEof
    \/ ReadCobsFails

CobsSpec == CobsInit /\ [][CobsNext]_vars

(***************************************************************************)
(* The TCP side listener: detacher::main (crates/serial/src/detacher.rs),  *)
(* the thread SerialWorkerController::spawn starts next to the worker.     *)
(***************************************************************************)
\* b"attach" and b"detach"
AttachBytes == <<97, 116, 116, 97, 99, 104>>
DetachBytes == <<100, 101, 116, 97, 99, 104>>

\* a match that takes whatever is not b"attach" for b"detach"
TcpCommand_ElseDetach(buf) ==
    IF buf = AttachBytes THEN <<Attach>> ELSE <<Detach>>

\* match &buf[..]: the command of the six bytes read, if they name one
TcpCommand(buf) ==
    IF buf = AttachBytes THEN <<Attach>>
    ELSE IF buf = DetachBytes THEN <<Detach>>
    ELSE <<>>

\* what a peer writes before it closes its connection: the two commands,
\* "Attach", "attack", "detacH", commands with bytes after them, and fewer
\* than six bytes
TcpPeers ==
    {AttachBytes, DetachBytes,
     <<65, 116, 116, 97, 99, 104>>, <<97, 116, 116, 97, 99, 107>>,
     <<100, 101, 116, 97, 99, 72>>,
     AttachBytes \o <<10>>, DetachBytes \o AttachBytes,
     <<32>> \o SubSeq(AttachBytes, 1, 5),
     <<>>, SubSeq(AttachBytes, 1, 3), SubSeq(DetachBytes, 1, 5)}

\* TcpListener::bind(..).expect(..) when the port is free
TcpBind ==
    /\ detacher.pc = "start"
    /\ detacher' = [detacher EXCEPT !.pc = "serving"]
    /\ UNCHANGED <<main, arg, ret, app, cobsVars, flagVars>>

\* TcpListener::bind(..).expect(..) when it fails: the thread panics
TcpBindFails ==
    /\ detacher.pc = "start"
    /\ detacher' = [detacher EXCEPT !.pc = "panicked"]
    /\ UNCHANGED <<main, arg, ret, app, cobsVars, flagVars>>

\* listener.incoming() yields Ok(stream)
TcpAccept ==
    /\ detacher.pc = "serving"
    /\ \E peer \in TcpPeers :
        detacher' = [detacher EXCEPT !.pc = "reading", !.peer = peer]
    /\ UNCHANGED <<main, arg, ret, app, cobsVars, flagVars>>

\* listener.incoming() yields Err(err): logged, the loop goes on
TcpAcceptError ==
    /\ detacher.pc = "serving"
    /\ detacher' = [detacher EXCEPT !.last = "accept_error"]
    /\ UNCHANGED <<main, arg, ret, app, cobsVars, flagVars>>

\* stream.read_exact(buf) returns Err(err), as it does when the peer closed
\* before six bytes or the connection broke: logged, the loop goes on
TcpReadError ==
    /\ detacher.pc = "reading"
    /\ detacher' = [pc |-> "serving", peer |-> <<>>, last |-> "read_error"]
    /\ UNCHANGED <<main, arg, ret, app, cobsVars, flagVars>>

\* stream.read_exact(buf) returns Ok(()) with the first six bytes and the
\* match acts on them; command_tx.send(..).unwrap() panics when the worker
\* is gone
TcpRead ==
    /\ detacher.pc = "reading"
    /\ Len(detacher.peer) >= 6
    /\ LET command == TcpCommand(SubSeq(detacher.peer, 1, 6))
       IN  IF command = <<>>
           THEN /\ detacher' = [pc |-> "serving", peer |-> <<>>, last |-> "ignored"]
                /\ UNCHANGED <<cmdQ, sent>>
           ELSE IF pc = "panicked"
           THEN /\ detacher' = [pc |-> "panicked", peer |-> <<>>, last |-> "send_failed"]
                /\ UNCHANGED <<cmdQ, sent>>
           ELSE /\ Len(sent) < MaxCmds
                /\ cmdQ' = ChannelSend(cmdQ, command[1])
                /\ sent' = Append(sent, command[1])
                /\ detacher' = [pc |-> "serving", peer |-> <<>>, last |-> "forwarded"]
    /\ UNCHANGED <<state, opt_reader, metricQ, pc, effect, dtr,
                   dequeued, decoded, delivered, repainted, iter, frame, result,
                   arg, ret, app, cobsVars, flagVars>>

Detacher ==
    \/ TcpBind
    \/ TcpBindFails
    \/ TcpAccept
    \/ TcpAcceptError
    \/ TcpReadError
    \/ TcpRead

\* the side listener and the worker that receives what it sends, while the
\* controller's owner calls nothing: the worker gets Attach and Detach only
DetacherNext ==
    \/ Detacher
    \/ DrainEmpty
    \/ ApplyDetach
    \/ WaitAttach
    \/ ApplyAttach
    \/ Connect
    \/ ReadStep

DetacherSpec == Init /\ [][DetacherNext]_vars

(***************************************************************************)
(* The flag-based worker (src/serial/worker.rs) and its controller         *)
(* (src/serial/worker/controller.rs): detach and connected are AtomicBools, *)
(* the worker parks while detached, and connects and disconnects are       *)
(* reported as System packets on the packet channel.  flag_pc is the       *)
(* position of the worker thread, one step per access to shared state:     *)
(*   "top"        at `self.detach.load(..)`                                *)
(*   "det_send"   in the detach branch, before the SerialDisconnect packet *)
(*   "det_store"  before `self.connected.store(false, ..)` of the branch   *)
(*   "park"       in `thread::park()`                                      *)
(*   "io"         at `match &mut opt_reader`                               *)
(*   "dis_store", "dis_send"   in the SerialPortDisconnected arm           *)
(*   "con_store", "con_send"   in the Some(reader) arm of connect()        *)
(*   "panicked"   the thread has unwound                                   *)
(***************************************************************************)
SerialConnect == <<"System", "SerialConnect">>
SerialDisconnect == <<"System", "SerialDisconnect">>
Telemetry == <<"Telemetry">>

\* what is not the flag-based worker
FlagOthers == <<main, arg, ret, app, cobsVars, detacher>>

FlagInit ==
    /\ MainIdle
    /\ CallIdle
    /\ AppStart
    /\ CobsIdle
    /\ DetacherStart
    /\ FlagStart

\* the packet channel has room for n more packets
Room(n) == Len(packet_rx) + n <= MaxFlagPackets

\* `if self.detach.load(Ordering::SeqCst)`
LoadDetach ==
    /\ flag_pc = "top"
    /\ flag_pc' = IF detach_flag THEN "det_send" ELSE "io"
    /\ UNCHANGED <<FlagOthers, detach_flag, connected_flag, flag_reader,
                   park_token, packet_rx, callers>>

\* a detach branch that reports a disconnect whether or not a reader is held
DetachSends_Always(reader) == TRUE

\* `if opt_reader.is_some()`
DetachSends(reader) == reader = "Some"

\* the detach branch up to `opt_reader = None`
DetachDisconnect ==
    /\ flag_pc = "det_send"
    /\ packet_rx' = IF DetachSends(flag_reader)
                    THEN Append(packet_rx, SerialDisconnect) ELSE packet_rx
    /\ flag_reader' = "None"
    /\ flag_pc' = "det_store"
    /\ UNCHANGED <<FlagOthers, detach_flag, connected_flag, park_token, callers>>

\* `self.connected.store(false, ..)` and repaint of the detach branch
DetachStore ==
    /\ flag_pc = "det_store"
    /\ connected_flag' = FALSE
    /\ flag_pc' = "park"
    /\ UNCHANGED <<FlagOthers, detach_flag, flag_reader, park_token,
                   packet_rx, callers>>

\* thread::park() returns because the token is set, and consumes it
ParkWake ==
    /\ flag_pc = "park"
    /\ park_token
    /\ park_token' = FALSE
    /\ flag_pc' = "top"
    /\ UNCHANGED <<FlagOthers, detach_flag, connected_flag, flag_reader,
                   packet_rx, callers>>

\* thread::park() returns spuriously
ParkSpurious ==
    /\ flag_pc = "park"
    /\ ~park_token
    /\ flag_pc' = "top"
    /\ UNCHANGED <<FlagOthers, detach_flag, connected_flag, flag_reader,
                   park_token, packet_rx, callers>>

\* read_packet as the match of the worker sees it: a metric, a timeout, a
\* rejected frame, a disconnect, or a panic inside read_packet
FlagReadOutcomes == {"Ok", "TimedOut", "Rejected", "Disconnected", "Panic"}

\* the Some arm of `match &mut opt_reader`
FlagRead ==
    /\ flag_pc = "io"
    /\ flag_reader = "Some"
    /\ \E outcome \in FlagReadOutcomes :
         CASE outcome = "Ok" ->
                /\ Room(2)
                /\ packet_rx' = Append(packet_rx, Telemetry)
                /\ flag_pc' = "top"
                /\ flag_reader' = flag_reader
           [] outcome = "Disconnected" ->
                /\ flag_reader' = "None"
                /\ flag_pc' = "dis_store"
                /\ packet_rx' = packet_rx
           [] outcome = "Panic" ->
                /\ flag_pc' = "panicked"
                /\ UNCHANGED <<flag_reader, packet_rx>>
           [] OTHER ->
                /\ flag_pc' = "top"
                /\ UNCHANGED <<flag_reader, packet_rx>>
    /\ UNCHANGED <<FlagOthers, detach_flag, connected_flag, park_token, callers>>

\* `self.connected.store(false, ..)` of the SerialPortDisconnected arm
DisconnectStore ==
    /\ flag_pc = "dis_store"
    /\ connected_flag' = FALSE
    /\ flag_pc' = "dis_send"
    /\ UNCHANGED <<FlagOthers, detach_flag, flag_reader, park_token,
                   packet_rx, callers>>

\* send_packet(SerialDisconnect) and repaint of that arm
DisconnectSend ==
    /\ flag_pc = "dis_send"
    /\ packet_rx' = Append(packet_rx, SerialDisconnect)
    /\ flag_pc' = "top"
    /\ UNCHANGED <<FlagOthers, detach_flag, connected_flag, flag_reader,
                   park_token, callers>>

\* the None arm of `match &mut opt_reader`: connect() up to
\* `opt_reader = Some(reader)`
FlagConnect ==
    /\ flag_pc = "io"
    /\ flag_reader = "None"
    /\ \E open \in OpenResults :
         CASE open = "Ok" ->
                /\ Room(2)
                /\ flag_reader' = "Some"
                /\ flag_pc' = "con_store"
           [] open = "NoDevice" ->
                /\ flag_pc' = "top"
                /\ flag_reader' = flag_reader
           [] open = "Other" ->
                /\ flag_pc' = "panicked"
                /\ flag_reader' = flag_reader
    /\ UNCHANGED <<FlagOthers, detach_flag, connected_flag, park_token,
                   packet_rx, callers>>

\* `self.connected.store(true, ..)`
ConnectStore ==
    /\ flag_pc = "con_store"
    /\ connected_flag' = TRUE
    /\ flag_pc' = "con_send"
    /\ UNCHANGED <<FlagOthers, detach_flag, flag_reader, park_token,
                   packet_rx, callers>>

\* send_packet(SerialConnect) and repaint
ConnectSend ==
    /\ flag_pc = "con_send"
    /\ packet_rx' = Append(packet_rx, SerialConnect)
    /\ flag_pc' = "top"
    /\ UNCHANGED <<FlagOthers, detach_flag, connected_flag, flag_reader,
                   park_token, callers>>

\* detach() of the controller and the b"detach" arm of the side listener:
\* `detach.store(true, ..)`
FlagDetach(c) ==
    /\ callers[c] = "idle"
    /\ detach_flag' = TRUE
    /\ UNCHANGED <<FlagOthers, connected_flag, flag_reader, flag_pc,
                   park_token, packet_rx, callers>>

\* an attach() that unparks the worker before it clears the flag
AttachStep_UnparkFirst(n) == IF n = 1 THEN "unpark" ELSE "store"

\* attach() and the b"attach" arm: first `detach.store(false, ..)`, then
\* `handle.thread().unpark()`
AttachStep(n) == IF n = 1 THEN "store" ELSE "unpark"

\* one of the two operations of attach()
AttachOp(op) ==
    IF op = "store"
    THEN detach_flag' = FALSE /\ park_token' = park_token
    ELSE park_token' = TRUE /\ detach_flag' = detach_flag

AttachFirst(c) ==
    /\ callers[c] = "idle"
    /\ AttachOp(AttachStep(1))
    /\ callers' = [callers EXCEPT ![c] = "attaching"]
    /\ UNCHANGED <<FlagOthers, connected_flag, flag_reader, flag_pc, packet_rx>>

AttachSecond(c) ==
    /\ callers[c] = "attaching"
    /\ AttachOp(AttachStep(2))
    /\ callers' = [callers EXCEPT ![c] = "idle"]
    /\ UNCHANGED <<FlagOthers, connected_flag, flag_reader, flag_pc, packet_rx>>

\* the steps of the worker thread that do not depend on a spurious wake-up
FlagWorker ==
    \/ LoadDetach
    \/ DetachDisconnect
    \/ DetachStore
    \/ ParkWake
    \/ FlagRead
    \/ DisconnectStore
    \/ DisconnectSend
    \/ FlagConnect
    \/ ConnectStore
    \/ ConnectSend

FlagNext ==
    \/ FlagWorker
    \/ ParkSpurious
    \/ \E c \in Callers : FlagDetach(c)
    \/ \E c \in Callers : AttachFirst(c)
    \/ \E c \in Callers : AttachSecond(c)

FlagSpec == FlagInit /\ [][FlagNext]_vars

\* the worker thread keeps running and a caller of attach() returns from it
FlagFairSpec ==
    /\ FlagInit
    /\ [][FlagNext]_vars
    /\ WF_vars(FlagWorker)
    /\ \A c \in Callers : WF_vars(AttachSecond(c))

(***************************************************************************)
(* Properties.                                                             *)
(***************************************************************************)
\* the worker step of this transition received the command c
Received(c) == dequeued' = Append(dequeued, c)

\* C1: WorkerState starts as Disconnected and changes only along
\* Disconnected->Connected (successful open), Connected->Disconnected (read
\* error classified as disconnect), Connected->Resetting and
\* Resetting->Connected (Reset command), Disconnected->Detached and
\* Connected->Detached (Detach command), Detached->Disconnected (Attach
\* command); no other transition ever occurs.
C1_StateEdges ==
    /\ state = "Disconnected"
    /\ [][state' # state =>
            \/ /\ state = "Disconnected" /\ state' = "Connected"
               /\ effect'.op = "open"
            \/ /\ state = "Connected" /\ state' = "Disconnected"
               /\ effect'.op = "read"
               /\ effect'.outcome = "SerialPortDisconnected"
            \/ /\ state = "Connected" /\ state' = "Resetting"
               /\ Received(Reset)
            \/ /\ state = "Resetting" /\ state' = "Connected"
               /\ effect'.op = "dtr_off"
            \/ /\ state \in {"Disconnected", "Connected"} /\ state' = "Detached"
               /\ Received(Detach)
            \/ /\ state = "Detached" /\ state' = "Disconnected"
               /\ Received(Attach)]_vars

\* C1 witness: the worker connected, decoded a metric, was detached and
\* attached again
C1_Witness ==
    /\ state = "Disconnected"
    /\ dequeued = <<Reset, Detach, Attach>>
    /\ decoded # <<>>

\* C2: read_packet never panics, whatever frame the decoder returned.
C2_ReadPacketNeverPanics == result.tag # "Panic"

RejectedFrame == {"MalformedCOBS", "BadPacketLength", "PoorLayout", "BadLength"}

\* C3: a read that ends in MalformedCOBS, BadPacketLength, PoorLayout or a
\* value BadLength leaves the state Connected, keeps the handle, enqueues no
\* metric and takes the worker back to the top of its loop.
C3_RejectedFrameNoEffect ==
    [][(pc = "io" /\ pc' # "io" /\ effect'.op = "read"
            /\ effect'.outcome \in RejectedFrame) =>
        /\ state = "Connected" /\ state' = "Connected"
        /\ opt_reader = "Some" /\ opt_reader' = "Some"
        /\ metricQ' = metricQ
        /\ decoded' = decoded
        /\ pc' = "drain"]_vars

\* C3 witness: a frame with a bad value length has just been rejected
C3_Witness ==
    /\ effect = Effect("read", <<>>, "BadLength")
    /\ state = "Connected"
    /\ pc = "drain"

\* C4: what new_metrics() has yielded so far, followed by what is still in
\* the channel, is exactly the sequence of metrics the worker decoded: the
\* yielded metrics are a prefix of the decoded ones, in order.
C4_MetricsFifo == delivered \o metricQ = decoded

\* C4 witness: two different metrics were decoded and both were yielded
C4_Witness ==
    /\ Len(delivered) = 2
    /\ delivered[1] # delivered[2]

\* C5: the commands the worker has dequeued, followed by those still queued,
\* are exactly the commands sent, in the order they were sent.
C5_CommandsFifo == dequeued \o cmdQ = sent

\* C5 witness: three different commands were dequeued, one in the main loop,
\* one ignored and one accepted by the wait loop
C5_Witness ==
    /\ dequeued = <<Detach, SendCommand(1), Attach>>
    /\ state = "Disconnected"

\* C6: every command sent is eventually dequeued by the worker, given that
\* every connect attempt returns (open never fails with an error other than
\* NoDevice).
C6_EveryCommandDequeued ==
    \A n \in 1..MaxCmds :
        (Len(sent) >= n) ~> (Len(dequeued) >= n \/ effect.op = "open_panic")

\* C7: a Detach applied from Disconnected or Connected releases the handle and
\* sets the state to Detached; while Detached the worker sits in the wait
\* loop with no handle, opens nothing, reads nothing and enqueues no metric.
C7_DetachedIsQuiet ==
    [][/\ (pc = "drain" /\ Received(Detach)) =>
            /\ state \in {"Disconnected", "Connected"}
            /\ state' = "Detached"
            /\ effect'.op = IF opt_reader = "Some" THEN "release" ELSE "none"
       /\ state' = "Detached" =>
            /\ opt_reader' = "None"
            /\ pc' = "wait_attach"
       /\ state = "Detached" =>
            /\ decoded' = decoded
            /\ Len(metricQ') <= Len(metricQ)
            /\ effect' = effect \/ effect' = NoEffect
            /\ state' # "Detached" => Received(Attach)]_vars

\* C7 witness: the worker was detached while it held a handle
C7_Witness ==
    /\ state = "Detached"
    /\ effect.op = "release"
    /\ decoded # <<>>

\* C8: a command dequeued while Detached is taken by the wait loop; anything
\* but Attach is dropped for good with no state change and no transport
\* operation, and Attach sets the state to Disconnected and returns the
\* worker, without a handle, to its loop.
C8_IgnoredWhileDetached ==
    [][(state = "Detached" /\ dequeued' # dequeued) =>
        /\ pc = "wait_attach"
        /\ Received(Head(cmdQ))
        /\ cmdQ' = Tail(cmdQ)
        /\ opt_reader' = "None"
        /\ effect' = NoEffect
        /\ dtr' = dtr
        /\ IF Head(cmdQ) = Attach
           THEN state' = "Disconnected" /\ pc' = "drain"
           ELSE state' = "Detached" /\ pc' = "wait_attach"]_vars

\* C8 witness: a Reset was dropped while detached and the Attach after it
\* was accepted
C8_Witness ==
    /\ dequeued = <<Detach, Reset, Attach>>
    /\ state = "Disconnected"
    /\ pc = "drain"
    /\ decoded # <<>>

\* C9: a Reset applied while no handle is held changes nothing and pulses no
\* control line; Resetting is entered only from Connected and only while a
\* handle is held.
C9_ResetNeedsHandle ==
    [][/\ (pc = "drain" /\ Received(Reset) /\ opt_reader = "None") =>
            /\ state = "Disconnected"
            /\ UNCHANGED <<state, opt_reader, metricQ, dtr, pc>>
            /\ effect' = NoEffect
       /\ (state' = "Resetting" /\ state # "Resetting") => state = "Connected"
       /\ state' = "Resetting" => opt_reader' = "Some"]_vars

\* C9 witness: the first command was a Reset and it was applied with no
\* handle held
C9_Witness ==
    /\ dequeued = <<Reset>>
    /\ pc = "drain"
    /\ effect = NoEffect
    /\ state = "Disconnected"

\* C10: Resetting is transient: every Resetting state is eventually followed
\* by Connected.
C10_ResettingTransient == (state = "Resetting") ~> (state = "Connected")

\* C11: a SendCommand(c) applied while a handle is held writes exactly the
\* one byte c and leaves the state unchanged; applied with no handle it
\* writes nothing and changes nothing.
C11_SendCommandWritesOneByte ==
    [][\A c \in RobotCommand :
        (pc = "drain" /\ Received(SendCommand(c))) =>
            /\ UNCHANGED <<state, opt_reader, metricQ, dtr, pc>>
            /\ effect' = IF opt_reader = "Some"
                         THEN Effect("write", <<c>>, "none")
                         ELSE NoEffect]_vars

\* C12: a read that times out keeps the state Connected and the handle,
\* enqueues no metric and does not call repaint.
C12_TimeoutChangesNothing ==
    [][(pc = "io" /\ pc' # "io" /\ effect'.op = "read"
            /\ effect'.outcome = "TimedOut") =>
        /\ state = "Connected" /\ state' = "Connected"
        /\ opt_reader = "Some" /\ opt_reader' = "Some"
        /\ metricQ' = metricQ
        /\ decoded' = decoded
        /\ repainted' = FALSE
        /\ pc' = "drain"]_vars

\* C12 witness: a read has just timed out
C12_Witness ==
    /\ effect.op = "read"
    /\ effect.io = "TimedOut"
    /\ state = "Connected"
    /\ pc = "drain"

\* C13: a read that fails with an io error is a timeout iff the error kind is
\* TimedOut and a disconnect otherwise; on a disconnect the worker drops the
\* handle, sets the state to Disconnected, repaints and returns to the top of
\* its loop without a handle, so that its next io step is a connect attempt.
C13_IoErrorIsDisconnect ==
    [][(pc = "io" /\ pc' # "io" /\ effect'.op = "read") =>
        /\ effect'.io # "none" =>
             effect'.outcome =
                IF effect'.io = "TimedOut" THEN "TimedOut"
                ELSE "SerialPortDisconnected"
        /\ effect'.outcome \in {"TimedOut", "SerialPortDisconnected"} =>
             effect'.io # "none"
        /\ effect'.outcome = "SerialPortDisconnected" =>
             /\ state = "Connected" /\ state' = "Disconnected"
             /\ opt_reader' = "None"
             /\ repainted' = TRUE
             /\ metricQ' = metricQ
             /\ pc' = "drain"]_vars

\* C13 witness: a read failed with an error kind the conversion has no arm
\* of its own for, and the connection was dropped
C13_Witness ==
    /\ effect.op = "read"
    /\ effect.io = "BrokenPipe"
    /\ state = "Disconnected"
    /\ opt_reader = "None"
    /\ repainted

\* C14: the worker calls repaint in every step that changes WorkerState.
C14_RepaintAfterStateChange == [][state' # state => repainted']_vars

\* C15: an open that fails with NoDevice leaves the worker Disconnected with
\* no handle and nothing enqueued, back at the top of its loop, and a
\* Disconnected worker at its io step has no handle, so it opens again; if
\* from some point on no open fails (and no Detach is issued) the state
\* eventually becomes Connected.
C15_RetryUntilConnected ==
    /\ [][/\ (pc = "io" /\ pc' # "io" /\ effect'.op = "open_nodevice") =>
                /\ state = "Disconnected" /\ state' = "Disconnected"
                /\ opt_reader' = "None"
                /\ metricQ' = metricQ
                /\ decoded' = decoded
                /\ pc' = "drain"
          /\ (state' = "Disconnected" /\ pc' = "io") => opt_reader' = "None"]_vars
    /\ <>[](effect.op \notin {"open_nodevice", "open_panic"})
          => <>(state = "Connected")

\* C15 witness: the latest open found no device and the worker is back at the
\* top of its loop
C15_Witness ==
    /\ effect.op = "open_nodevice"
    /\ state = "Disconnected"
    /\ pc = "drain"
    /\ dequeued # <<>>

\* C16: a controller operation only appends its command to the command
\* channel: it leaves WorkerState, the handle, the transport and the worker
\* untouched; WorkerState changes only in steps of the worker thread.
C16_SingleWriter ==
    [][/\ sent' # sent =>
            /\ cmdQ' = Append(cmdQ, sent'[Len(sent')])
            /\ UNCHANGED <<state, opt_reader, effect, dtr, pc, metricQ,
                           repainted, dequeued>>
       /\ state' # state => (pc' # pc \/ dequeued' # dequeued)]_vars

\* C16 witness: detach() has returned and state() still reads Connected
C16_Witness ==
    /\ sent = <<Detach>>
    /\ cmdQ = <<Detach>>
    /\ state = "Connected"

IsBadPacketLength == result.tag = "Err" /\ result.err = "BadPacketLength"

\* C18: read_packet reads the last 2 bytes of the frame as a little-endian
\* u16, takes expected = declared - 2 floored at 0 and rejects the frame with
\* BadPacketLength{Some(expected), bytes before the length field} exactly
\* when the two differ; a frame shorter than 2 bytes gives
\* BadPacketLength{None}.
C18_LengthCheck ==
    result # NoResult =>
        LET n == Len(frame)
        IN  IF n < 2
            THEN IsBadPacketLength /\ result.expected = <<>>
            ELSE LET declared == frame[n - 1] + 256 * frame[n]
                     expected == IF declared >= 2 THEN declared - 2 ELSE 0
                 IN  IF expected = n - 2
                     THEN ~IsBadPacketLength
                     ELSE /\ IsBadPacketLength
                          /\ result.expected = <<expected>>
                          /\ result.got = n - 2

\* C18 witness: a well laid out frame was rejected for its declared length
C18_Witness ==
    /\ IsBadPacketLength
    /\ Len(frame) > 6
    /\ result.expected = <<Len(frame) - 1>>
    /\ result.got = Len(frame) - 2

\* the trailing two bytes of the frame declare length 10
Declares10 ==
    /\ Len(frame) >= 2
    /\ frame[Len(frame) - 1] = 10
    /\ frame[Len(frame)] = 0

\* C19 as stated: a frame that declares length 10 and has a body of 8 bytes
\* comes back as BadPacketLength with expected = 8.
C19_Declared10Body8Rejected ==
    (result # NoResult /\ Declares10 /\ Len(frame) - 2 = 8) =>
        (IsBadPacketLength /\ result.expected = <<8>>)

\* C19 amended: a frame that declares length 10 comes back as
\* BadPacketLength{expected: Some(8), got: body length} when its body is not
\* 8 bytes long; with a body of 8 bytes it passes the length check.
C19_Declared10 ==
    (result # NoResult /\ Declares10) =>
        IF Len(frame) - 2 = 8
        THEN ~IsBadPacketLength
        ELSE /\ IsBadPacketLength
             /\ result.expected = <<8>>
             /\ result.got = Len(frame) - 2

\* C19 witness: a body of 7 bytes under a declared length of 10
C19_Witness ==
    /\ Declares10
    /\ Len(frame) = 9
    /\ IsBadPacketLength
    /\ result.expected = <<8>>
    /\ result.got = 7

\* the bytes after the timestamp and before the length field
PayloadOf(f) == SubSeq(f, 5, Len(f) - 2)

\* the positions of the NUL bytes of a byte string
NulsOf(bytes) == {i \in 1..Len(bytes) : bytes[i] = 0}

\* the frame passes the length check and holds a timestamp
WellSized ==
    /\ Len(frame) >= 6
    /\ frame[Len(frame) - 1] + 256 * frame[Len(frame)] = Len(frame)

\* C20: the payload is split at its first two NULs only; name, type tag and
\* value are the bytes before, between and after them, the value keeping
\* every further NUL.  No NUL gives PoorLayout{1}, exactly one NUL gives
\* PoorLayout{2}, and PoorLayout{0} is never produced.
C20_SplitAtFirstTwoNuls ==
    /\ ~(result.tag = "Err" /\ result.err = "PoorLayout" /\ result.section = 0)
    /\ (result # NoResult /\ WellSized) =>
        LET payload == PayloadOf(frame)
            nuls    == NulsOf(payload)
        IN  IF nuls = {} THEN result = PoorLayout(1, payload)
            ELSE IF Cardinality(nuls) = 1 THEN result = PoorLayout(2, payload)
            ELSE
            LET i     == CHOOSE x \in nuls : \A y \in nuls : x <= y
                j     == CHOOSE x \in nuls \ {i} : \A y \in nuls \ {i} : x <= y
                name  == SubSeq(payload, 1, i - 1)
                type  == SubSeq(payload, i + 1, j - 1)
                value == SubSeq(payload, j + 1, Len(payload))
                v     == from_bytes(Utf8Lossy(type), value)
            IN  IF v.tag = "Err" THEN result = v
                ELSE /\ result.tag = "Ok"
                     /\ result.metric.name = from_str(Utf8Lossy(name))
                     /\ result.metric.value = v.value

\* C20 witness: a frame whose value holds NUL bytes was decoded
C20_Witness ==
    /\ result.tag = "Ok"
    /\ Cardinality(NulsOf(PayloadOf(frame))) >= 4
    /\ result.metric.value[1] = "One"

\* C21: a frame LE32(t) ++ n ++ 0 ++ g ++ 0 ++ v ++ LE16(length before + 2),
\* with n and g free of NUL and v valid for g, parses to the metric with
\* timestamp t, name parse(n) and value decode(g, v); the frame of
\* "ultrasonic:distance", "u32", 42 at 1000 parses to
\* Metric{1000, Namespace(ultrasonic) -> Name(distance), One(U32(42))}.
C21_WellFormedFrameParses ==
    result # NoResult =>
        /\ \A t \in Timestamps, n \in Names \cup {ExampleName} :
             (/\ Len(frame) > Len(n) + 5
              /\ SubSeq(frame, 1, Len(n) + 5) = ToLeBytes(t, 4) \o n \o <<0>>) =>
                \A g \in Tags, v \in Values :
                    (/\ frame = FrameOf(BodyOf(t, n, g, v), 0)
                     /\ from_bytes(Utf8Lossy(g), v).tag = "Ok") =>
                        result =
                            [tag |-> "Ok",
                             metric |->
                                [timestamp |-> t,
                                 name  |-> from_str(Utf8Lossy(n)),
                                 value |-> from_bytes(Utf8Lossy(g), v).value]]
        /\ frame = ExampleFrame =>
             result =
                [tag |-> "Ok",
                 metric |->
                    [timestamp |-> 1000,
                     name  |-> <<"Namespace",
                                 <<117, 108, 116, 114, 97, 115, 111, 110, 105, 99>>,
                                 <<"Name", <<100, 105, 115, 116, 97, 110, 99, 101>>>>>>,
                     value |-> <<"One", "U32", 42>>]]

\* C21 witness: the example frame was parsed
C21_Witness ==
    /\ frame = ExampleFrame
    /\ result.tag = "Ok"
    /\ result.metric.timestamp = 1000

\* from_bytes has returned
DecodedValue == ret.tag = "Ret" /\ arg.fn = "from_bytes"

\* the byte width of each scalar type on the wire
WireWidth(t) ==
    CASE t = "U8"  -> 1 [] t = "I8"  -> 1 [] t = "Bool" -> 1
      [] t = "U16" -> 2 [] t = "I16" -> 2
      [] t = "U32" -> 4 [] t = "I32" -> 4 [] t = "F32" -> 4
      [] t = "U64" -> 8 [] t = "I64" -> 8 [] t = "F64" -> 8

\* C22: from_bytes with a scalar tag succeeds iff the byte string has the
\* width of the type; with an array tag it succeeds iff the length is a
\* multiple of the width, an empty string giving the empty array.
C22_LengthInvariant ==
    DecodedValue =>
        \A t \in OneValueTypes :
            /\ arg.ty = ScalarTag(t) =>
                 /\ ret.v.tag = "Ok" <=> Len(arg.bytes) = WireWidth(t)
                 /\ ret.v.tag = "Ok" => ret.v.value[1] = "One"
            /\ arg.ty = ArrayTag(t) =>
                 /\ ret.v.tag = "Ok" <=> Len(arg.bytes) % WireWidth(t) = 0
                 /\ ret.v.tag = "Ok" =>
                      /\ ret.v.value[1] = "Many"
                      /\ Len(ret.v.value[3]) * WireWidth(t) = Len(arg.bytes)

\* C22 witness: an array with a trailing partial chunk was rejected
C22_Witness ==
    /\ DecodedValue
    /\ arg.ty = ArrayTag("U32")
    /\ Len(arg.bytes) = 6
    /\ ret.v.tag = "Err"

\* C23: decoding inverts the little-endian encoding: an integer scalar
\* decodes to the value whose encoding the bytes are, an integer array to
\* the encoded values in their order, and a bool byte to true iff it is
\* nonzero.
C23_RoundTrip ==
    DecodedValue =>
        /\ \A t \in IntTypes :
            /\ arg.ty = ScalarTag(t) =>
                 \A x \in IntSamples(t) :
                    arg.bytes = LeOf(x, WireWidth(t)) =>
                        ret.v = [tag |-> "Ok", value |-> <<"One", t, x>>]
            /\ arg.ty = ArrayTag(t) =>
                 \A xs \in SeqsUpTo(IntSamples(t), 2) :
                    arg.bytes = LeSeq(xs, WireWidth(t)) =>
                        ret.v = [tag |-> "Ok", value |-> <<"Many", t, xs>>]
        /\ (arg.ty = ScalarTag("Bool") /\ Len(arg.bytes) = 1) =>
             ret.v = [tag |-> "Ok",
                      value |-> <<"One", "Bool", arg.bytes[1] # 0>>]
        /\ arg.ty = ArrayTag("Bool") =>
             ret.v = [tag |-> "Ok",
                      value |-> <<"Many", "Bool",
                                  [i \in 1..Len(arg.bytes) |-> arg.bytes[i] # 0]>>]

\* C23 witness: the encoding of the i16 array [-1, 256] was decoded
C23_Witness ==
    /\ DecodedValue
    /\ arg.ty = ArrayTag("I16")
    /\ arg.bytes = <<255, 255, 0, 1>>
    /\ ret.v.tag = "Ok"
    /\ ret.v.value[3] = <<0 - 1, 256>>

\* the 22 tag strings: "u8" ... "f64" and "[u8]" ... "[f64]"
RecognizedTags ==
    LET scalars == {<<117, 56>>, <<117, 49, 54>>, <<117, 51, 50>>, <<117, 54, 52>>,
                    <<105, 56>>, <<105, 49, 54>>, <<105, 51, 50>>, <<105, 54, 52>>,
                    <<98, 111, 111, 108>>, <<102, 51, 50>>, <<102, 54, 52>>}
    IN  scalars \cup {<<91>> \o g \o <<93>> : g \in scalars}

\* C24: for a tag that is not exactly one of the 22 recognized tags,
\* from_bytes succeeds with Unknown(tag, bytes), tag and bytes as given,
\* whatever the bytes are.
C24_UnknownTagTotal ==
    (DecodedValue /\ arg.ty \notin RecognizedTags) =>
        ret.v = [tag |-> "Ok", value |-> <<"Unknown", arg.ty, arg.bytes>>]

\* C24 witness: "U8", a recognized tag in the wrong case, came back as
\* Unknown with its three bytes
C24_Witness ==
    /\ DecodedValue
    /\ arg.ty = <<85, 56>>
    /\ arg.bytes = <<255, 0, 0>>
    /\ ret.v.value = <<"Unknown", <<85, 56>>, <<255, 0, 0>>>>

\* the accessors have returned
Accessed == ret.tag = "Ret" /\ arg.fn = "is_focusable"

\* C25: a value is focusable iff one of as_float, as_signed_integer,
\* as_unsigned_integer, as_bool returns Some; for an Unknown value all four
\* return None, so it is not focusable; every scalar One value is focusable.
C25_Focusable ==
    Accessed =>
        LET some == \/ ret.v.as_float # <<>>
                    \/ ret.v.as_signed_integer # <<>>
                    \/ ret.v.as_unsigned_integer # <<>>
                    \/ ret.v.as_bool # <<>>
        IN  /\ ret.v.is_focusable <=> some
            /\ arg.value[1] = "Unknown" => (~some /\ ~ret.v.is_focusable)
            /\ arg.value[1] = "One" => ret.v.is_focusable

\* C25 witness: Unknown("v3", [1, 2, 3]) was found not focusable
C25_Witness ==
    /\ Accessed
    /\ arg.value = <<"Unknown", <<118, 51>>, <<1, 2, 3>>>>
    /\ ~ret.v.is_focusable

\* the segments joined again with ':' between them
RECURSIVE JoinColon(_)
JoinColon(segments) ==
    IF Len(segments) = 1 THEN segments[1]
    ELSE segments[1] \o <<58>> \o JoinColon(Tail(segments))

\* the name has been parsed
Parsed == ret.tag = "Ret" /\ arg.fn = "from_str"

\* C26: parsing a name always succeeds: flattening the result gives the
\* segments of the string between its colons, in order (one more segment
\* than colons, none holding a colon, the string again when joined), empty
\* segments included; the result nests each namespace around the rest;
\* "a:b:c" gives namespace a, namespace b, name c, and a string without a
\* colon gives a flat Name.
C26_NameParse ==
    Parsed =>
        LET colons == Cardinality({i \in 1..Len(arg.s) : arg.s[i] = 58})
            flat   == ret.v.flat
        IN  /\ Len(flat) = colons + 1
            /\ \A i \in 1..Len(flat) : \A j \in 1..Len(flat[i]) : flat[i][j] # 58
            /\ JoinColon(flat) = arg.s
            /\ colons = 0 => ret.v.name = <<"Name", arg.s>>
            /\ colons > 0 =>
                 /\ ret.v.name[1] = "Namespace"
                 /\ ret.v.name[2] = flat[1]
                 /\ Flatten(ret.v.name[3]) = Tail(flat)
            /\ arg.s = <<97, 58, 98, 58, 99>> =>
                 ret.v.name =
                    <<"Namespace", <<97>>,
                      <<"Namespace", <<98>>, <<"Name", <<99>>>>>>>>

\* C26 witness: "a::b:" was parsed, with an empty namespace and an empty name
C26_Witness ==
    /\ Parsed
    /\ arg.s = <<97, 58, 58, 98, 58>>
    /\ ret.v.flat = <<<<97>>, <<>>, <<98>>, <<>>>>

\* C27: a - b on timestamps is the difference when a >= b and 0 when
\* a < b: never negative, never wrapped.
C27_SubSaturates ==
    (ret.tag = "Ret" /\ arg.fn = "sub") =>
        /\ arg.a >= arg.b => ret.v + arg.b = arg.a
        /\ arg.a < arg.b => ret.v = 0
        /\ ret.v >= 0
        /\ ret.v <= arg.a

\* C27 witness: 80 - 250 gave 0
C27_Witness ==
    /\ ret.tag = "Ret"
    /\ arg.fn = "sub"
    /\ arg.a = 80
    /\ arg.b = 250
    /\ ret.v = 0

\* the timestamps held in a metrics history
HeldTimestamps(history) ==
    UNION {{history[n][i][1] : i \in 1..Len(history[n])} : n \in DOMAIN history}

\* C28: a telemetry packet with a timestamp strictly below current_time
\* clears the packet ring and the metrics history before it is recorded, one
\* at or above current_time clears nothing, and current_time becomes the
\* packet's timestamp.  Without the clock and clear buttons, current_time is
\* then the largest timestamp in the history, every per-metric history is
\* non-decreasing in timestamp, and for [100, 250, 80] the clear happens at
\* the third packet only.
C28_RebootClears ==
    /\ [][seen' # seen =>
            LET t == seen'[Len(seen')]
            IN  /\ current_time' = t
                /\ \E n \in AppNames :
                    /\ n \in DOMAIN metrics_history'
                    /\ metrics_history'[n][Len(metrics_history'[n])][1] = t
                    /\ IF t < current_time
                       THEN /\ DOMAIN metrics_history' = {n}
                            /\ Len(metrics_history'[n]) = 1
                            /\ Len(packets') = 1
                            /\ Len(seen') \in clears'
                       ELSE /\ DOMAIN metrics_history \subseteq DOMAIN metrics_history'
                            /\ \A m \in DOMAIN metrics_history \ {n} :
                                 metrics_history'[m] = metrics_history[m]
                            /\ Len(packets') >= Len(packets)
                            /\ clears' = clears
                /\ packets'[Len(packets')].kind = "Telemetry"
                /\ packets'[Len(packets')].timestamp = t]_vars
    /\ [](~manual =>
            /\ \A t \in HeldTimestamps(metrics_history) : t <= current_time
            /\ seen # <<>> => current_time \in HeldTimestamps(metrics_history)
            /\ \A n \in DOMAIN metrics_history :
                 \A i \in 1..Len(metrics_history[n]), j \in 1..Len(metrics_history[n]) :
                    i <= j => metrics_history[n][i][1] <= metrics_history[n][j][1]
            /\ seen = <<100, 250, 80>> => clears = {3})

\* C28 witness: [100, 250, 80] was ingested, the history was cleared at the 80
\* and holds nothing but it
C28_Witness ==
    /\ ~manual
    /\ seen = <<100, 250, 80>>
    /\ clears = {3}
    /\ current_time = 80
    /\ HeldTimestamps(metrics_history) = {80}
    /\ Len(packets) = 1

\* the call returned a frame or a MalformedCOBS error
Decoded(call) ==
    \/ call.result.tag = "Ok"
    \/ call.result.tag = "Err" /\ call.result.err = "MalformedCOBS"

\* C29: read_cobs clears the scratch buffer at the start of every call, so a
\* call's result depends on nothing but the bytes that call read: it is the
\* result of reading those bytes into an empty buffer, the buffer holds only
\* those bytes afterwards, they run to the first 0x00 and no further, two
\* calls that read the same bytes and decode them return the same result, and the chunk [5, 0] is MalformedCOBS every time it is read
C29_ReadCobsClearsBuffer ==
    /\ [][calls' # calls =>
            LET c == calls'[Len(calls')]
            IN  /\ stream = c.chunk \o stream'
                /\ Len(scratch') = Len(c.chunk)
                /\ Decoded(c) => c.result = read_cobs(<<>>, c.chunk).result]_vars
    /\ [](\A i \in 1..Len(calls), j \in 1..Len(calls) :
            /\ (Decoded(calls[i]) /\ Decoded(calls[j])
                    /\ calls[i].chunk = calls[j].chunk) =>
                   calls[i].result = calls[j].result
            /\ Decoded(calls[i]) => \A k \in 1..(Len(calls[i].chunk) - 1) :
                                       calls[i].chunk[k] # 0
            /\ calls[i].chunk = <<5, 0>> =>
                   /\ calls[i].result.tag = "Err"
                   /\ calls[i].result.err = "MalformedCOBS"
            /\ calls[i].chunk = <<2, 5, 0>> =>
                   calls[i].result = [tag |-> "Ok", buffer |-> <<5>>])

\* C29 witness: the malformed chunk [5, 0] was read twice in a row after a
\* well-formed frame, and both calls returned MalformedCOBS
C29_Witness ==
    /\ Len(calls) = 3
    /\ calls[1].result.tag = "Ok"
    /\ calls[2].chunk = <<5, 0>>
    /\ calls[3].chunk = <<5, 0>>
    /\ calls[2].result.err = "MalformedCOBS"
    /\ calls[3].result.err = "MalformedCOBS"

\* the first six bytes of the connection being read, or fewer if it has fewer
FirstSix == SubSeq(detacher.peer, 1, IF Len(detacher.peer) < 6 THEN Len(detacher.peer) ELSE 6)

\* the listener forwards command: one send, and the connection is done
Forwards(command) ==
    /\ sent' = Append(sent, command)
    /\ cmdQ' = Append(cmdQ, command)
    /\ detacher'.pc = "serving"
    /\ detacher'.peer = <<>>

\* the listener sends nothing and goes on
SendsNothing ==
    /\ sent' = sent
    /\ cmdQ' = cmdQ
    /\ detacher'.pc \in {"serving", "reading"}

C30_ListenerStep ==
    /\ (sent' # sent) =>
          /\ detacher.pc = "reading"
          /\ FirstSix \in {AttachBytes, DetachBytes}
          /\ (FirstSix = AttachBytes) => Forwards(Attach)
          /\ (FirstSix = DetachBytes) => Forwards(Detach)
    /\ (detacher.pc = "reading" /\ detacher' # detacher
            /\ FirstSix \notin {AttachBytes, DetachBytes}) =>
          (SendsNothing /\ detacher'.pc = "serving")
    /\ (detacher.pc = "serving" /\ detacher' # detacher) => SendsNothing

\* C30: the side listener sends a command only while it reads an accepted
\* connection whose first six bytes are exactly "attach" (it sends Attach) or
\* "detach" (it sends Detach), one command and the connection is done; a
\* connection that ends with other bytes, with fewer than six or with a read
\* error, and an accept error, send nothing and leave the listener serving
C30_ListenerForwardsExactCommands ==
    /\ [][C30_ListenerStep]_vars
    /\ [](detacher.last \in {"ignored", "read_error", "accept_error"} =>
              detacher.pc \in {"serving", "reading"})

\* C30 witness: one Detach was forwarded, the latest connection held six
\* bytes that name no command and was ignored, and the listener has accepted
\* the next connection, which says "attach"
C30_Witness ==
    /\ sent = <<Detach>>
    /\ detacher.last = "ignored"
    /\ detacher.pc = "reading"
    /\ detacher.peer = AttachBytes

\* the call failed with a read timeout
TimedOutCall(call) ==
    call.result.tag = "Err" /\ call.result.err = "TimedOut"

\* C31: a read timeout that interrupts a frame loses no data: when a call
\* timed out after some bytes of a frame and the next call on the same
\* connection read on to the frame's delimiter, that call returns what the
\* whole frame, the bytes of both calls, decodes to
C31_TimeoutLosesNoData ==
    \A i \in 1..(Len(calls) - 1) :
        (/\ TimedOutCall(calls[i])
         /\ i > 1 => Decoded(calls[i - 1])
         /\ Decoded(calls[i + 1])
         /\ calls[i + 1].chunk # <<>>
         /\ calls[i + 1].chunk[Len(calls[i + 1].chunk)] = 0) =>
            calls[i + 1].result =
                read_cobs(<<>>, calls[i].chunk \o calls[i + 1].chunk).result

\* the worker is at the top of its loop or between two commands of the
\* drain ("drain"), or before the read or connect step ("io")
AtLoopBoundary == pc \in {"drain", "io"}

\* C32: at every loop-iteration boundary of the worker the published state
\* agrees with the transport handle: it is Connected iff a handle is held,
\* and Disconnected and Detached imply that none is held.
C32_StateAgreesWithHandle ==
    AtLoopBoundary =>
        /\ state = "Connected" <=> opt_reader = "Some"
        /\ state \in {"Disconnected", "Detached"} => opt_reader = "None"

\* C32 witness: the worker is before its read step, Connected and holding a
\* handle, after a detach, an attach, a reconnect and a reset pulse
C32_Witness ==
    /\ pc = "io"
    /\ state = "Connected"
    /\ opt_reader = "Some"
    /\ dequeued = <<Detach, Attach, Reset>>

\* the metrics the frames of the transport parse to
FrameMetrics ==
    {read_packet(f).metric : f \in {g \in WorkerFrames : read_packet(g).tag = "Ok"}}

\* C33: a metric is enqueued on the metric channel only while the state is
\* Connected, never while it is Disconnected, Resetting or Detached, and it
\* is the metric parsed from the frame the same step read on the handle the
\* worker holds before and after it.
C33_MetricsOnlyWhileConnected ==
    [][(decoded' # decoded \/ Len(metricQ') > Len(metricQ)) =>
        /\ state = "Connected" /\ state' = "Connected"
        /\ opt_reader = "Some" /\ opt_reader' = "Some"
        /\ pc = "io"
        /\ effect' = Effect("read", <<>>, "Ok")
        /\ \E m \in FrameMetrics :
             /\ decoded' = Append(decoded, m)
             /\ metricQ' = Append(metricQ, m)]_vars

\* C33 witness: a Reset was dequeued and the worker, Connected, has just read
\* a frame and enqueued its metric
C33_Witness ==
    /\ dequeued = <<Reset>>
    /\ state = "Connected"
    /\ effect = Effect("read", <<>>, "Ok")
    /\ Len(metricQ) = 1
    /\ decoded = metricQ

\* the last Attach or Detach of a command sequence, if it has one
RECURSIVE LastAttachOrDetach(_)
LastAttachOrDetach(commands) ==
    IF commands = <<>> THEN <<>>
    ELSE IF commands[Len(commands)] \in {Attach, Detach}
         THEN <<commands[Len(commands)]>>
         ELSE LastAttachOrDetach(SubSeq(commands, 1, Len(commands) - 1))

\* what a command can change of the worker
Attachment == <<state, opt_reader, pc, metricQ, dtr>>

\* C34: Attach and Detach are idempotent and the last one wins: whatever the
\* worker has dequeued, it is Detached iff the last Attach or Detach among
\* it is a Detach; dequeuing a Detach while Detached or an Attach while
\* attached changes nothing.
C34_LastAttachOrDetachWins ==
    /\ [](state = "Detached" <=> LastAttachOrDetach(dequeued) = <<Detach>>)
    /\ [][(Len(dequeued') > Len(dequeued)
              /\ \/ dequeued'[Len(dequeued')] = Detach /\ state = "Detached"
                 \/ dequeued'[Len(dequeued')] = Attach /\ state # "Detached") =>
            (Attachment' = Attachment /\ effect' = NoEffect)]_vars

\* C34 witness: an Attach while attached, a Detach and a Detach while
\* Detached were dequeued, and the worker is Detached
C34_Witness ==
    /\ dequeued = <<Attach, Detach, Detach>>
    /\ state = "Detached"
    /\ pc = "wait_attach"

\* the worker thread has unwound from the panic in connect()
OpenFatal == pc = "panicked" /\ effect.op = "open_panic"

\* C35: an open error other than NoDevice ends the worker thread: the step
\* that panics writes no state and sends no metric, and afterwards the state
\* stays Disconnected, no metric is produced, no command is dequeued and the
\* worker does nothing more.
C35_OpenErrorIsFatal ==
    /\ [](OpenFatal => (state = "Disconnected" /\ opt_reader = "None"))
    /\ [][(pc # "panicked" /\ effect'.op = "open_panic") =>
            /\ pc = "io" /\ pc' = "panicked"
            /\ state = "Disconnected" /\ state' = "Disconnected"
            /\ ~repainted'
            /\ metricQ' = metricQ /\ decoded' = decoded]_vars
    /\ [][OpenFatal =>
            /\ OpenFatal'
            /\ state' = state
            /\ decoded' = decoded
            /\ Len(metricQ') <= Len(metricQ)
            /\ dequeued' = dequeued
            /\ cmdQ' = cmdQ
            /\ dtr' = dtr]_vars

\* C35 witness: the worker died in connect() with a Detach still queued; the
\* state says Disconnected
C35_Witness ==
    /\ OpenFatal
    /\ cmdQ = <<Detach>>
    /\ dequeued = <<>>
    /\ state = "Disconnected"

\* the eight accessors have returned
AccessedAll == ret.tag = "Ret" /\ arg.fn = "accessors"

\* the type classes of the claim
UnsignedTypes == {"U8", "U16", "U32", "U64"}
SignedTypes == {"I8", "I16", "I32", "I64"}
FloatTypes == {"F32", "F64"}

\* how many of the given Options are Some
SomeCount(options) == Cardinality({i \in 1..Len(options) : options[i] # <<>>})

\* C36: the scalar accessors partition the values: for a One value exactly
\* one of as_bool, as_unsigned_integer, as_signed_integer, as_float returns
\* Some, the one of its type class, the bool and integer views are the stored
\* value, and no iterator is returned; for a Many value no scalar accessor
\* returns Some and exactly one *_iter accessor returns an iterator, the one
\* of its type class, yielding the elements in order; for Unknown all eight
\* return None.
C36_AccessorsPartition ==
    AccessedAll =>
        LET v       == arg.value
            r       == ret.v
            scalars == SomeCount(<<r.as_bool, r.as_unsigned_integer,
                                   r.as_signed_integer, r.as_float>>)
            iters   == SomeCount(<<r.as_bool_iter, r.as_unsigned_integer_iter,
                                   r.as_signed_integer_iter, r.as_float_iter>>)
        IN  /\ v[1] = "One" =>
                 /\ scalars = 1 /\ iters = 0
                 /\ v[2] = "Bool" => r.as_bool = <<v[3]>>
                 /\ v[2] \in UnsignedTypes => r.as_unsigned_integer = <<v[3]>>
                 /\ v[2] \in SignedTypes => r.as_signed_integer = <<v[3]>>
                 /\ v[2] \in FloatTypes => r.as_float # <<>>
                 /\ v[2] = "F64" => r.as_float = <<v[3]>>
            /\ v[1] = "Many" =>
                 /\ scalars = 0 /\ iters = 1
                 /\ v[2] = "Bool" => r.as_bool_iter = <<v[3]>>
                 /\ v[2] \in UnsignedTypes => r.as_unsigned_integer_iter = <<v[3]>>
                 /\ v[2] \in SignedTypes => r.as_signed_integer_iter = <<v[3]>>
                 /\ v[2] \in FloatTypes =>
                      /\ r.as_float_iter # <<>>
                      /\ Len(r.as_float_iter[1]) = Len(v[3])
                 /\ v[2] = "F64" => r.as_float_iter = <<v[3]>>
            /\ v[1] = "Unknown" => (scalars = 0 /\ iters = 0)
            /\ v[1] \in {"One", "Many", "Unknown"}

\* C36 witness: the i8 array [-1, 1] was accessed and only
\* as_signed_integer_iter returned something, yielding -1 and 1
C36_Witness ==
    /\ AccessedAll
    /\ arg.value = <<"Many", "I8", <<0 - 1, 1>>>>
    /\ ret.v.as_signed_integer_iter = <<<<0 - 1, 1>>>>
    /\ ret.v.as_unsigned_integer_iter = <<>>

IsSystem(packet) == packet[1] = "System"

\* the System packets of the packet channel, in order
SystemPacketsSent == SelectSeq(packet_rx, IsSystem)

\* the last System packet among the first n packets, if there is one
RECURSIVE LastSystemBefore(_)
LastSystemBefore(n) ==
    IF n = 0 THEN <<>>
    ELSE IF IsSystem(packet_rx[n]) THEN <<packet_rx[n]>>
    ELSE LastSystemBefore(n - 1)

\* the flag-based worker is between two iterations of its loop, parked, or
\* has stopped for good
FlagAtBoundary == flag_pc \in {"top", "io", "park", "panicked"}

\* C37: in the flag-based worker the System packets alternate SerialConnect,
\* SerialDisconnect, SerialConnect, ... starting with SerialConnect; every
\* Telemetry packet follows a SerialConnect with no SerialDisconnect in
\* between; and between loop iterations the connected flag is true exactly
\* when the last System packet is a SerialConnect, which is exactly when the
\* worker holds a reader, whatever detach() and attach() calls interleave.
C37_SystemPacketsAlternate ==
    /\ \A i \in 1..Len(SystemPacketsSent) :
         SystemPacketsSent[i] =
            IF i % 2 = 1 THEN SerialConnect ELSE SerialDisconnect
    /\ \A i \in 1..Len(packet_rx) :
         packet_rx[i] = Telemetry => LastSystemBefore(i) = <<SerialConnect>>
    /\ FlagAtBoundary =>
         /\ connected_flag <=> LastSystemBefore(Len(packet_rx)) = <<SerialConnect>>
         /\ connected_flag <=> flag_reader = "Some"

\* C37 witness: the worker connected, sent a Telemetry packet, saw the
\* detach flag, reported the disconnect and parked with connected false
C37_Witness ==
    /\ packet_rx = <<SerialConnect, Telemetry, SerialDisconnect>>
    /\ flag_pc = "park"
    /\ detach_flag
    /\ ~connected_flag

\* the detach branch of the worker, from the load that saw the flag set to
\* the park
InDetachBranch == flag_pc \in {"det_send", "det_store"}

\* the SerialConnect packets sent so far
ConnectsSent(sequence) == SelectSeq(sequence, LAMBDA q : q = SerialConnect)

\* a step of the worker around park(): out of park() it goes to the flag
\* load; a load that sees the flag set enters the detach branch, which ends
\* in park() with no reader, connected false and nothing opened
C38_ParkStep ==
    /\ (flag_pc = "park" /\ flag_pc' # "park") =>
          (flag_pc' = "top" /\ UNCHANGED <<flag_reader, packet_rx, connected_flag>>)
    /\ (flag_pc = "top" /\ flag_pc' # "top") =>
          (flag_pc' = IF detach_flag THEN "det_send" ELSE "io")
    /\ (flag_pc = "det_send" /\ flag_pc' # "det_send") =>
          (flag_pc' = "det_store" /\ flag_reader' = "None")
    /\ (flag_pc = "det_store" /\ flag_pc' # "det_store") =>
          (flag_pc' = "park" /\ flag_reader' = "None" /\ ~connected_flag')
    /\ InDetachBranch => ConnectsSent(packet_rx') = ConnectsSent(packet_rx)

\* C38: the flag-based worker loses no wake-up: whenever it is in park() and
\* the detach flag is false, it gets back to a connection attempt unless the
\* flag is set again first; a worker that leaves park() goes to the flag
\* load, and one that loads the flag as true goes through the detach branch
\* to park() again, holding no reader and opening nothing on the way.
C38_NoLostWakeup ==
    /\ (flag_pc = "park" /\ ~detach_flag) ~>
          (detach_flag \/ (flag_pc = "io" /\ flag_reader = "None"))
    /\ [][C38_ParkStep]_vars

\* C38 witness: attach() has cleared the flag and set the token while the
\* worker, which loaded the flag as true, was still on its way to park(); the
\* worker is in park() now with the token waiting for it
C38_Witness ==
    /\ flag_pc = "park"
    /\ park_token
    /\ ~detach_flag
    /\ callers = [c \in Callers |-> "idle"]

====
